---- MODULE Spec2Model ----
(***************************************************************************)
(* Delegation and execution coordination of RobotSupervisor                *)
(* (src/src/langgraph_supervisor.py): agent selection, sequential and      *)
(* parallel dispatch, handoff chaining, result aggregation and the memory  *)
(* hooks around one execute call.                                          *)
(*                                                                         *)
(* Text.  A Python str is modelled as a sequence of fragments (a Text);    *)
(* a fragment is a string constant of the program or of an input, or a     *)
(* single character.  Flatten gives the characters of a Text, so that the  *)
(* `in` operator (substring test) and str.lower() are computed on          *)
(* characters as Python computes them.                                     *)
(***************************************************************************)
EXTENDS Integers, Sequences, FiniteSets, TLC

None == "None"

(* ------------------------------ bounds -------------------------------- *)
\* number of execute calls made on the supervisor in one behaviour
MaxCalls == 2
\* execute is called only while the session provider holds fewer turns than this
MaxHistory == 3
\* a discussion is asked for at most this many rounds
MaxRounds == 2

(* ------------------------------- state -------------------------------- *)
VARIABLES
    agents,            \* self.agents: registered agent names in dict order
    config,            \* the configuration fields kept by __init__
    session_manager,   \* self.session_manager
    history,           \* the turns held by the session provider
    context,           \* self.context
    pc,                \* where the current execute call is suspended
    ncalls,            \* execute calls started so far
    query,             \* execute's query argument
    parallel,          \* execute's parallel argument
    specific_agents,   \* execute's specific_agents argument
    enhanced_query,    \* execute's enhanced_query
    selected_agents,   \* execute's selected_agents
    responses,         \* the AgentResponse list built by the dispatch
    slot,              \* sequential mode: index of the agent_name of the loop
    tasks,             \* parallel mode: the tasks handed to gather
    result,            \* the SupervisorResult of the call
    invocations,       \* the calls of agents' execute made during the call
    fetched_history,   \* what get_conversation_history gave to the call
    discussion,        \* the frame of execute_multi_robot_discussion
    cancelled,         \* the calls (indexes of invocations) that a deadline cancelled
    employees,         \* the caller's list of process_payroll: as given, and as it is now
    selecting,         \* _select_agents' selected list after the category loop and after
                       \* the creative block
    clock,             \* sequential mode: ticks spent so far in _execute_sequential
    parked             \* the frame of the other execute call, suspended at an await

vars == <<agents, config, session_manager, history, context, pc, ncalls, query,
          parallel, specific_agents, enhanced_query, selected_agents, responses,
          slot, tasks, result, invocations, fetched_history, discussion,
          cancelled, employees, selecting, clock, parked>>

(* ------------------------------- text --------------------------------- *)
CharsTable ==
    "calculate" :> <<"c", "a", "l", "c", "u", "l", "a", "t", "e">> @@
    "compound interest" :> <<"c", "o", "m", "p", "o", "u", "n", "d", " ", "i", "n", "t", "e", "r", "e", "s", "t">> @@
    "math" :> <<"m", "a", "t", "h">> @@
    "2 + 2" :> <<"2", " ", "+", " ", "2">> @@
    "RoboNerd" :> <<"R", "o", "b", "o", "N", "e", "r", "d">> @@
    "story" :> <<"s", "t", "o", "r", "y">> @@
    "exciting" :> <<"e", "x", "c", "i", "t", "i", "n", "g">> @@
    "treasure hunt" :> <<"t", "r", "e", "a", "s", "u", "r", "e", " ", "h", "u", "n", "t">> @@
    "joke" :> <<"j", "o", "k", "e">> @@
    "treasure" :> <<"t", "r", "e", "a", "s", "u", "r", "e">> @@
    "perform" :> <<"p", "e", "r", "f", "o", "r", "m">> @@
    "RoboDrama" :> <<"R", "o", "b", "o", "D", "r", "a", "m", "a">> @@
    "RoboPirate" :> <<"R", "o", "b", "o", "P", "i", "r", "a", "t", "e">> @@
    "RoboFriend" :> <<"R", "o", "b", "o", "F", "r", "i", "e", "n", "d">> @@
    "meditate" :> <<"m", "e", "d", "i", "t", "a", "t", "e">> @@
    "wisdom" :> <<"w", "i", "s", "d", "o", "m">> @@
    "zen" :> <<"z", "e", "n">> @@
    "RoboZen" :> <<"R", "o", "b", "o", "Z", "e", "n">> @@
    "encourage" :> <<"e", "n", "c", "o", "u", "r", "a", "g", "e">> @@
    "friend" :> <<"f", "r", "i", "e", "n", "d">> @@
    "help" :> <<"h", "e", "l", "p">> @@
    "research" :> <<"r", "e", "s", "e", "a", "r", "c", "h">> @@
    "analyze" :> <<"a", "n", "a", "l", "y", "z", "e">> @@
    "study" :> <<"s", "t", "u", "d", "y">> @@
    "MarketAnalyst" :> <<"M", "a", "r", "k", "e", "t", "A", "n", "a", "l", "y", "s", "t">> @@
    "QuantResearcher" :> <<"Q", "u", "a", "n", "t", "R", "e", "s", "e", "a", "r", "c", "h", "e", "r">> @@
    "aapl" :> <<"a", "a", "p", "l">> @@
    "stock" :> <<"s", "t", "o", "c", "k">> @@
    "trading opportunity" :> <<"t", "r", "a", "d", "i", "n", "g", " ", "o", "p", "p", "o", "r", "t", "u", "n", "i", "t", "y">> @@
    "market" :> <<"m", "a", "r", "k", "e", "t">> @@
    "trade" :> <<"t", "r", "a", "d", "e">> @@
    "trading" :> <<"t", "r", "a", "d", "i", "n", "g">> @@
    "RiskManager" :> <<"R", "i", "s", "k", "M", "a", "n", "a", "g", "e", "r">> @@
    "risk" :> <<"r", "i", "s", "k">> @@
    "assessment" :> <<"a", "s", "s", "e", "s", "s", "m", "e", "n", "t">> @@
    "evaluation" :> <<"e", "v", "a", "l", "u", "a", "t", "i", "o", "n">> @@
    "payroll" :> <<"p", "a", "y", "r", "o", "l", "l">> @@
    "tax" :> <<"t", "a", "x">> @@
    "compliance" :> <<"c", "o", "m", "p", "l", "i", "a", "n", "c", "e">> @@
    "employee" :> <<"e", "m", "p", "l", "o", "y", "e", "e">> @@
    "PayrollProcessor" :> <<"P", "a", "y", "r", "o", "l", "l", "P", "r", "o", "c", "e", "s", "s", "o", "r">> @@
    "TaxCalculator" :> <<"T", "a", "x", "C", "a", "l", "c", "u", "l", "a", "t", "o", "r">> @@
    "ComplianceAgent" :> <<"C", "o", "m", "p", "l", "i", "a", "n", "c", "e", "A", "g", "e", "n", "t">> @@
    "creative" :> <<"c", "r", "e", "a", "t", "i", "v", "e">> @@
    "imagine" :> <<"i", "m", "a", "g", "i", "n", "e">> @@
    "Timeout" :> <<"T", "i", "m", "e", "o", "u", "t">> @@
    "Timed out" :> <<"T", "i", "m", "e", "d", " ", "o", "u", "t">> @@
    "Alice" :> <<"A", "l", "i", "c", "e">> @@
    "Calculate 2+2 and tell a joke" :> <<"C", "a", "l", "c", "u", "l", "a", "t", "e", " ", "2", "+", "2", " ", "a", "n", "d", " ", "t", "e", "l", "l", " ", "a", " ", "j", "o", "k", "e">> @@
    "Test query" :> <<"T", "e", "s", "t", " ", "q", "u", "e", "r", "y">> @@
    "Tell me an exciting story" :> <<"T", "e", "l", "l", " ", "m", "e", " ", "a", "n", " ", "e", "x", "c", "i", "t", "i", "n", "g", " ", "s", "t", "o", "r", "y">> @@
    "Calculation error" :> <<"C", "a", "l", "c", "u", "l", "a", "t", "i", "o", "n", " ", "e", "r", "r", "o", "r">> @@
    "Connection Timeout" :> <<"C", "o", "n", "n", "e", "c", "t", "i", "o", "n", " ", "T", "i", "m", "e", "o", "u", "t">> @@
    "list index out of range" :> <<"l", "i", "s", "t", " ", "i", "n", "d", "e", "x", " ", "o", "u", "t", " ", "o", "f", " ", "r", "a", "n", "g", "e">> @@
    "2+2=4" :> <<"2", "+", "2", "=", "4">> @@
    "Why did the robot cross the road?" :> <<"W", "h", "y", " ", "d", "i", "d", " ", "t", "h", "e", " ", "r", "o", "b", "o", "t", " ", "c", "r", "o", "s", "s", " ", "t", "h", "e", " ", "r", "o", "a", "d", "?">> @@
    "Once upon a time" :> <<"O", "n", "c", "e", " ", "u", "p", "o", "n", " ", "a", " ", "t", "i", "m", "e">> @@
    "Explain the technical details" :> <<"E", "x", "p", "l", "a", "i", "n", " ", "t", "h", "e", " ", "t", "e", "c", "h", "n", "i", "c", "a", "l", " ", "d", "e", "t", "a", "i", "l", "s">> @@
    "Ghost" :> <<"G", "h", "o", "s", "t">> @@
    "Analyze AAPL payroll risk" :> <<"A", "n", "a", "l", "y", "z", "e", " ", "A", "A", "P", "L", " ", "p", "a", "y", "r", "o", "l", "l", " ", "r", "i", "s", "k">> @@
    "Imagine a new world" :> <<"I", "m", "a", "g", "i", "n", "e", " ", "a", " ", "n", "e", "w", " ", "w", "o", "r", "l", "d">> @@
    "Meditate with me" :> <<"M", "e", "d", "i", "t", "a", "t", "e", " ", "w", "i", "t", "h", " ", "m", "e">> @@
    "What is the essence of programming?" :> <<"W", "h", "a", "t", " ", "i", "s", " ", "t", "h", "e", " ", "e", "s", "s", "e", "n", "c", "e", " ", "o", "f", " ", "p", "r", "o", "g", "r", "a", "m", "m", "i", "n", "g", "?">> @@
    "Topic: " :> <<"T", "o", "p", "i", "c", ":", " ">> @@
    "Previous discussion:\n" :> <<"P", "r", "e", "v", "i", "o", "u", "s", " ", "d", "i", "s", "c", "u", "s", "s", "i", "o", "n", ":", "\n">> @@
    "Previous discussion" :> <<"P", "r", "e", "v", "i", "o", "u", "s", " ", "d", "i", "s", "c", "u", "s", "s", "i", "o", "n">> @@
    "...\n" :> <<".", ".", ".", "\n">> @@
    "\nWhat are your thoughts?" :> <<"\n", "W", "h", "a", "t", " ", "a", "r", "e", " ", "y", "o", "u", "r", " ", "t", "h", "o", "u", "g", "h", "t", "s", "?">> @@
    "My name is Alice" :> <<"M", "y", " ", "n", "a", "m", "e", " ", "i", "s", " ", "A", "l", "i", "c", "e">> @@
    "Nice to meet you Alice!" :> <<"N", "i", "c", "e", " ", "t", "o", " ", "m", "e", "e", "t", " ", "y", "o", "u", " ", "A", "l", "i", "c", "e", "!">> @@
    "What's my name?" :> <<"W", "h", "a", "t", "'", "s", " ", "m", "y", " ", "n", "a", "m", "e", "?">> @@
    "bullish" :> <<"b", "u", "l", "l", "i", "s", "h">> @@
    "oversold" :> <<"o", "v", "e", "r", "s", "o", "l", "d">> @@
    "Market sentiment is bullish" :> <<"M", "a", "r", "k", "e", "t", " ", "s", "e", "n", "t", "i", "m", "e", "n", "t", " ", "i", "s", " ", "b", "u", "l", "l", "i", "s", "h">> @@
    "RSI indicates oversold conditions" :> <<"R", "S", "I", " ", "i", "n", "d", "i", "c", "a", "t", "e", "s", " ", "o", "v", "e", "r", "s", "o", "l", "d", " ", "c", "o", "n", "d", "i", "t", "i", "o", "n", "s">> @@
    "Recommended position size: 2%" :> <<"R", "e", "c", "o", "m", "m", "e", "n", "d", "e", "d", " ", "p", "o", "s", "i", "t", "i", "o", "n", " ", "s", "i", "z", "e", ":", " ", "2", "%">> @@
    "Analyze AAPL for trading opportunity" :> <<"A", "n", "a", "l", "y", "z", "e", " ", "A", "A", "P", "L", " ", "f", "o", "r", " ", "t", "r", "a", "d", "i", "n", "g", " ", "o", "p", "p", "o", "r", "t", "u", "n", "i", "t", "y">> @@
    "Tell me an exciting math story" :> <<"T", "e", "l", "l", " ", "m", "e", " ", "a", "n", " ", "e", "x", "c", "i", "t", "i", "n", "g", " ", "m", "a", "t", "h", " ", "s", "t", "o", "r", "y">> @@
    "Tell me an exciting story about AAPL stock" :> <<"T", "e", "l", "l", " ", "m", "e", " ", "a", "n", " ", "e", "x", "c", "i", "t", "i", "n", "g", " ", "s", "t", "o", "r", "y", " ", "a", "b", "o", "u", "t", " ", "A", "A", "P", "L", " ", "s", "t", "o", "c", "k">> @@
    "\nContext: " :> <<"\n", "C", "o", "n", "t", "e", "x", "t", ":", " ">> @@
    "User: " :> <<"U", "s", "e", "r", ":", " ">> @@
    "Assistant: " :> <<"A", "s", "s", "i", "s", "t", "a", "n", "t", ":", " ">> @@
    "..." :> <<".", ".", ".">> @@
    ": " :> <<":", " ">> @@
    "{'last_query': '" :> <<"{", "'", "l", "a", "s", "t", "_", "q", "u", "e", "r", "y", "'", ":", " ", "'">> @@
    "', 'last_agents': [" :> <<"'", ",", " ", "'", "l", "a", "s", "t", "_", "a", "g", "e", "n", "t", "s", "'", ":", " ", "[">> @@
    "]}" :> <<"]", "}">> @@
    "', '" :> <<"'", ",", " ", "'">> @@
    ", " :> <<",", " ">> @@
    "What's my name?\nContext: User: My name is Alice\nAssistant: Nice to meet you Alice!" :>
        <<"W", "h", "a", "t", "'", "s", " ", "m", "y", " ", "n", "a", "m", "e", "?", "\n", "C", "o", "n", "t", "e", "x", "t", ":", " ", "U", "s", "e", "r", ":", " ", "M", "y", " ", "n", "a", "m", "e", " ", "i", "s", " ", "A", "l", "i", "c", "e", "\n", "A", "s", "s", "i", "s", "t", "a", "n", "t", ":", " ", "N", "i", "c", "e", " ", "t", "o", " ", "m", "e", "e", "t", " ", "y", "o", "u", " ", "A", "l", "i", "c", "e", "!">>

\* the strings that are not single characters
Fragments == DOMAIN CharsTable

\* the characters of a fragment
CharsOf(s) == IF s \in Fragments THEN CharsTable[s] ELSE <<s>>

\* the characters of a text: those of its fragments, in order (computed by
\* halves, which keeps the evaluation shallow on long texts)
RECURSIVE Flatten(_)
Flatten(t) ==
    IF t = <<>> THEN <<>>
    ELSE IF Len(t) = 1 THEN CharsOf(t[1])
    ELSE LET half == Len(t) \div 2
         IN  Flatten(SubSeq(t, 1, half)) \o Flatten(SubSeq(t, half + 1, Len(t)))

UpperChars == <<"A","B","C","D","E","F","G","H","I","J","K","L","M",
                "N","O","P","Q","R","S","T","U","V","W","X","Y","Z">>
LowerChars == <<"a","b","c","d","e","f","g","h","i","j","k","l","m",
                "n","o","p","q","r","s","t","u","v","w","x","y","z">>

LowerChar(c) ==
    IF \E k \in 1..26 : UpperChars[k] = c
    THEN LowerChars[CHOOSE k \in 1..26 : UpperChars[k] = c]
    ELSE c

\* str.lower() on the characters of a text
Lower(cs) == [k \in 1..Len(cs) |-> LowerChar(cs[k])]

\* Python `needle in hay` on character sequences
Contains(hay, needle) ==
    \E k \in 0..(Len(hay) - Len(needle)) :
        \A j \in 1..Len(needle) : hay[k + j] = needle[j]

\* any(keyword in query_lower for keyword in keywords)
AnyKeyword(query_lower, keywords) ==
    \E k \in 1..Len(keywords) : Contains(query_lower, CharsOf(keywords[k]))

\* the single element of a one-element set
Only(S) == CHOOSE x \in S : TRUE

SeqToSet(s) == {s[k] : k \in 1..Len(s)}

\* SelectNew that does not look at what is selected already
RECURSIVE SelectNew_AllowsDuplicates(_, _, _)
SelectNew_AllowsDuplicates(candidates, registry, selected) ==
    IF candidates = <<>> THEN selected
    ELSE LET a == Head(candidates)
         IN  SelectNew_AllowsDuplicates(Tail(candidates), registry,
                       IF a \in SeqToSet(registry)
                       THEN Append(selected, a) ELSE selected)

\* selected extended, in order, by the candidates that are registered and
\* not yet selected (lines 202-204, 259-261, 269-271)
RECURSIVE SelectNew(_, _, _)
SelectNew(candidates, registry, selected) ==
    IF candidates = <<>> THEN selected
    ELSE LET a == Head(candidates)
         IN  SelectNew(Tail(candidates), registry,
                       IF a \in SeqToSet(registry) /\ a \notin SeqToSet(selected)
                       THEN Append(selected, a) ELSE selected)

(* ------------------------- agent selection ---------------------------- *)
_get_skill_categories ==
    << [category |-> "mathematics",
        keywords |-> <<"calculate", "compound interest", "math", "2 + 2", "+", "-", "*", "/">>,
        agents   |-> <<"RoboNerd">>],
       [category |-> "creative",
        keywords |-> <<"story", "exciting", "treasure hunt", "joke", "treasure", "perform">>,
        agents   |-> <<"RoboDrama", "RoboPirate", "RoboFriend">>],
       [category |-> "wisdom",
        keywords |-> <<"meditate", "wisdom", "zen">>,
        agents   |-> <<"RoboZen">>],
       [category |-> "social",
        keywords |-> <<"encourage", "friend", "help">>,
        agents   |-> <<"RoboFriend">>],
       [category |-> "analysis",
        keywords |-> <<"research", "analyze", "study">>,
        agents   |-> <<"RoboNerd", "MarketAnalyst", "QuantResearcher">>],
       [category |-> "trading",
        keywords |-> <<"aapl", "stock", "trading opportunity", "market", "trade", "trading">>,
        agents   |-> <<"MarketAnalyst", "QuantResearcher", "RiskManager">>],
       [category |-> "risk",
        keywords |-> <<"risk", "assessment", "evaluation">>,
        agents   |-> <<"RiskManager">>],
       [category |-> "hr_payroll",
        keywords |-> <<"payroll", "tax", "compliance", "employee">>,
        agents   |-> <<"PayrollProcessor", "TaxCalculator", "ComplianceAgent">>] >>

\* the loop over the skill categories, lines 197-204
RECURSIVE MatchCategories(_, _, _, _)
MatchCategories(cats, query_lower, registry, selected) ==
    IF cats = <<>> THEN selected
    ELSE LET c == Head(cats)
         IN  MatchCategories(Tail(cats), query_lower, registry,
                 IF AnyKeyword(query_lower, c.keywords)
                 THEN SelectNew(c.agents, registry, selected)
                 ELSE selected)

creative_indicators == <<"story", "exciting", "treasure hunt", "creative", "imagine">>
trading_indicators == <<"analyze", "aapl", "stock", "trading opportunity">>

\* the creative block, lines 255-263
CreativeStrategy(query_lower, selected, registry) ==
    IF AnyKeyword(query_lower, creative_indicators)
    THEN LET s == SelectNew(<<"RoboDrama", "RoboPirate", "RoboFriend">>,
                            registry, selected)
         IN  SubSeq(s, 1, IF Len(s) < 2 THEN Len(s) ELSE 2)
    ELSE selected

\* _apply_multi_agent_strategies that cuts the team to two after the trading
\* block
_apply_multi_agent_strategies_CapLast(query_lower, selected, registry) ==
    LET s == IF AnyKeyword(query_lower, trading_indicators)
             THEN SelectNew(<<"MarketAnalyst", "QuantResearcher">>, registry, selected)
             ELSE selected
    IN  CreativeStrategy(query_lower, s, registry)

_apply_multi_agent_strategies(query_lower, selected, registry) ==
    LET creative == CreativeStrategy(query_lower, selected, registry)
    IN  IF AnyKeyword(query_lower, trading_indicators)
        THEN SelectNew(<<"MarketAnalyst", "QuantResearcher">>, registry, creative)
        ELSE creative

\* the selected list at the two intermediate points of _select_agents: after
\* the loop of lines 197-204 and after the creative block of line 207's call
NoSteps == [matched |-> <<>>, creative |-> <<>>]
SelectionSteps(q, registry, strategy) ==
    IF strategy # "skill_based" THEN NoSteps
    ELSE LET query_lower == Lower(Flatten(q))
             matched == MatchCategories(_get_skill_categories, query_lower,
                                        registry, <<>>)
         IN  [matched |-> matched,
              creative |-> CreativeStrategy(query_lower, matched, registry)]

\* list(self.agents.keys())[0]; raises IndexError on an empty registry
IndexError == "list index out of range"

\* _select_agents whose fallback takes the agents in turn, call after call
_select_agents_Rotating(q, registry, strategy) ==
    LET first == IF registry = <<>>
                 THEN [ok |-> FALSE, agents |-> <<>>, error |-> IndexError]
                 ELSE [ok |-> TRUE, agents |-> <<registry[(ncalls % Len(registry)) + 1]>>,
                       error |-> None]
    IN  IF strategy # "skill_based" THEN first
        ELSE Only({ IF selected = <<>> THEN first
                    ELSE [ok |-> TRUE, agents |-> selected, error |-> None] :
                    selected \in
                      { _apply_multi_agent_strategies(query_lower,
                            MatchCategories(_get_skill_categories, query_lower,
                                            registry, <<>>),
                            registry) :
                        query_lower \in {Lower(Flatten(q))} } })

\* _select_agents: [ok |-> TRUE, agents |-> list] or [ok |-> FALSE, error |-> str(e)]
_select_agents(q, registry, strategy) ==
    LET first == IF registry = <<>>
                 THEN [ok |-> FALSE, agents |-> <<>>, error |-> IndexError]
                 ELSE [ok |-> TRUE, agents |-> <<registry[1]>>, error |-> None]
    IN  IF strategy # "skill_based" THEN first
        ELSE Only({ IF selected = <<>> THEN first
                    ELSE [ok |-> TRUE, agents |-> selected, error |-> None] :
                    selected \in
                      { _apply_multi_agent_strategies(query_lower,
                            MatchCategories(_get_skill_categories, query_lower,
                                            registry, <<>>),
                            registry) :
                        query_lower \in {Lower(Flatten(q))} } })

(* ------------------------------ inputs -------------------------------- *)
\* the (query, specific_agents) arguments execute is called with;
\* <<>> stands for specific_agents=None (both are falsy)
Requests ==
    { [query |-> "Calculate 2+2 and tell a joke", specific_agents |-> <<>>],
      [query |-> "Test query", specific_agents |-> <<>>],
      [query |-> "Test query", specific_agents |-> <<"RoboFriend", "RoboNerd">>],
      [query |-> "Test query", specific_agents |-> <<"RoboNerd", "Ghost">>] }

\* the strs that have the characters of a text
AsStr(text) == {s \in Fragments : CharsTable[s] = Flatten(text)}

\* what RoboParrot answers with: the query its execute was called with when
\* that is one of the strs above, and a line of its own otherwise
Repeated(text) ==
    IF AsStr(text) # {} THEN CHOOSE s \in AsStr(text) : TRUE ELSE "Once upon a time"

\* the text an agent answers with
ReplyText(agent_name) ==
    CASE agent_name = "RoboNerd"   -> "2+2=4"
      [] agent_name = "RoboParrot" -> Repeated(invocations[Len(invocations)].query)
      [] agent_name = "RoboFriend" -> "Why did the robot cross the road?"
      [] agent_name = "MarketAnalyst" -> "Market sentiment is bullish"
      [] agent_name = "QuantResearcher" -> "RSI indicates oversold conditions"
      [] agent_name = "RiskManager" -> "Recommended position size: 2%"
      [] OTHER                     -> "Once upon a time"

\* messages of the exceptions an agent's execute raises
ErrorMessages == {"Calculation error", "Connection Timeout"}

\* what one call of an agent's execute does when it comes back:
\* a plain text, a dict carrying a handoff request, or an exception
AgentOutcomes ==
    {[kind |-> "text", handoff_to |-> None, handoff_task |-> None, error |-> None]}
    \cup {[kind |-> "dict", handoff_to |-> "RoboNerd",
           handoff_task |-> "Explain the technical details", error |-> None],
          [kind |-> "dict", handoff_to |-> "RoboFriend", handoff_task |-> None, error |-> None],
          [kind |-> "dict", handoff_to |-> "Ghost", handoff_task |-> None, error |-> None]}
    \cup {[kind |-> "raise", handoff_to |-> None, handoff_task |-> None, error |-> e] :
             e \in ErrorMessages}

\* what the session provider does on one await
FetchOutcomes == {"ok", "raise"}
StoreOutcomes == {"ok", "raise_user", "raise_assistant"}

DefaultTimeout == 30
DefaultMaxParallel == 3
DefaultHistoryLimit == 50
AssistantTruncate == 200

\* supervisors as constructed by __init__ (agents dict in key order, config,
\* and the session_manager attribute: "unset" when memory is disabled,
\* "None" as __init__ leaves it, "provider" once the caller has supplied one)
Setups ==
    { [agents |-> <<"RoboNerd", "RoboFriend">>, strategy |-> "skill_based",
       max_parallel_agents |-> DefaultMaxParallel, memory_enabled |-> FALSE,
       session_manager |-> "unset"],
      [agents |-> <<"RoboFriend", "RoboNerd">>, strategy |-> "round_robin",
       max_parallel_agents |-> 1, memory_enabled |-> FALSE,
       session_manager |-> "unset"],
      [agents |-> <<"RoboNerd">>, strategy |-> "skill_based",
       max_parallel_agents |-> DefaultMaxParallel, memory_enabled |-> TRUE,
       session_manager |-> "provider"],
      [agents |-> <<"RoboFriend">>, strategy |-> "skill_based",
       max_parallel_agents |-> DefaultMaxParallel, memory_enabled |-> TRUE,
       session_manager |-> "None"],
      [agents |-> <<>>, strategy |-> "skill_based",
       max_parallel_agents |-> DefaultMaxParallel, memory_enabled |-> FALSE,
       session_manager |-> "unset"] }

(* ---------------------------- data classes ---------------------------- *)
AgentResponse(agent_name, response, success, error, handoff_to, handoff_task) ==
    [agent_name |-> agent_name, response |-> response, success |-> success,
     error |-> error, handoff_to |-> handoff_to, handoff_task |-> handoff_task]

\* SupervisorResult(status="pending")
PendingResult ==
    [status |-> "pending", responses |-> <<>>, agents_involved |-> <<>>,
     errors |-> <<>>, duration |-> "0.0", workflow |-> <<>>,
     conversation |-> <<>>, analysis |-> None]

\* TimeoutResponse with another wording of the error
TimeoutResponse_Reworded(agent_name) ==
    AgentResponse(agent_name, "", FALSE, "Timed out", None, None)

\* the AgentResponse built for a deadline that elapsed, lines 315-321, 350-356
TimeoutResponse(agent_name) ==
    AgentResponse(agent_name, "", FALSE, "Timeout", None, None)

Registered(agent_name) == agent_name \in SeqToSet(agents)

(* ------------------------------ context ------------------------------- *)
EmptyContext == [keys |-> {}, last_query |-> "", last_agents |-> <<>>]

RECURSIVE ReprNames(_)
ReprNames(names) ==
    IF names = <<>> THEN <<>>
    ELSE IF Len(names) = 1 THEN <<"'", names[1], "'">>
    ELSE <<"'", names[1], "'", ", ">> \o ReprNames(Tail(names))

\* str(self.context) once both keys are set
ContextStr(ctx) ==
    <<"{'last_query': '", ctx.last_query, "', 'last_agents': [">>
    \o ReprNames(ctx.last_agents) \o <<"]}">>

\* lines 380-383: the query an agent's execute is called with
EnrichedQuery(q, ctx) ==
    IF ctx.keys # {} /\ Contains(Flatten(ContextStr(ctx)), CharsOf("Alice"))
    THEN q \o <<"\nContext: ">> \o ContextStr(ctx)
    ELSE q

(* --------------------------- single agent ----------------------------- *)
\* _execute_single_agent whose except branch leaves success at its default
_execute_single_agent_DefaultSuccess(agent_name, outcome) ==
    CASE outcome.kind = "raise" ->
            AgentResponse(agent_name, "", TRUE, outcome.error, None, None)
      [] outcome.kind = "dict" ->
            AgentResponse(agent_name, ReplyText(agent_name), TRUE, None,
                          outcome.handoff_to, outcome.handoff_task)
      [] OTHER ->
            AgentResponse(agent_name, ReplyText(agent_name), TRUE, None, None, None)

\* _execute_single_agent: the AgentResponse for what the agent's execute did
_execute_single_agent(agent_name, outcome) ==
    CASE outcome.kind = "raise" ->
            AgentResponse(agent_name, "", FALSE, outcome.error, None, None)
      [] outcome.kind = "dict" ->
            AgentResponse(agent_name, ReplyText(agent_name), TRUE, None,
                          outcome.handoff_to, outcome.handoff_task)
      [] OTHER ->
            AgentResponse(agent_name, ReplyText(agent_name), TRUE, None, None, None)

\* an execute call of an agent that has not come back
PendingOutcome ==
    [kind |-> "pending", handoff_to |-> None, handoff_task |-> None, error |-> None]

\* one entry of the invocation record: which agent's execute was called,
\* with which text, for which position of the agents list, as a handoff or
\* not, and what that call did (PendingOutcome until it comes back)
Invocation(agent_name, q, s, chained) ==
    [agent |-> agent_name, query |-> EnrichedQuery(q, context), slot |-> s,
     chained |-> chained, did |-> PendingOutcome]

(* ------------------------------ memory -------------------------------- *)
_is_memory_available == config.memory_enabled /\ session_manager = "provider"

LastN(s, n) == IF Len(s) <= n THEN s ELSE SubSeq(s, Len(s) - n + 1, Len(s))

RECURSIVE ContextParts(_)
ContextParts(turns) ==
    IF turns = <<>> THEN <<>>
    ELSE LET t == Head(turns)
             rest == ContextParts(Tail(turns))
         IN  CASE t.role = "user" -> <<<<"User: ">> \o t.content>> \o rest
               [] t.role = "assistant" ->
                    <<<<"Assistant: ">> \o
                      (IF Len(Flatten(t.content)) > AssistantTruncate
                       THEN SubSeq(Flatten(t.content), 1, AssistantTruncate) \o <<"...">>
                       ELSE t.content)>> \o rest
               [] OTHER -> rest

\* "\n".join(parts)
RECURSIVE JoinWith(_, _)
JoinWith(sep, parts) ==
    IF parts = <<>> THEN <<>>
    ELSE IF Len(parts) = 1 THEN parts[1]
    ELSE parts[1] \o <<sep>> \o JoinWith(sep, Tail(parts))

\* _build_context_enhanced_query that appends a context header to the query
\* even when there is no history
_build_context_enhanced_query_EmptyBlock(q, hist) ==
    IF hist = <<>> THEN <<q, "\nContext: ">>
    ELSE LET recent_turns == IF config.conversation_history_limit # 0
                             THEN LastN(hist, config.conversation_history_limit)
                             ELSE LastN(hist, 5)
             context_parts == ContextParts(recent_turns)
         IN  IF context_parts # <<>>
             THEN <<q, "\nContext: ">> \o JoinWith("\n", context_parts)
             ELSE <<q>>

\* lines 496-520
_build_context_enhanced_query(q, hist) ==
    IF hist = <<>> THEN <<q>>
    ELSE LET recent_turns == IF config.conversation_history_limit # 0
                             THEN LastN(hist, config.conversation_history_limit)
                             ELSE LastN(hist, 5)
             context_parts == ContextParts(recent_turns)
         IN  IF context_parts # <<>>
             THEN <<q, "\nContext: ">> \o JoinWith("\n", context_parts)
             ELSE <<q>>

_enhance_query_with_memory(q, fetch) ==
    IF ~_is_memory_available THEN <<q>>
    ELSE IF fetch = "raise" THEN <<q>>
    ELSE _build_context_enhanced_query(q, history)

\* " ".join(result.responses)
RECURSIVE JoinStrings(_, _)
JoinStrings(sep, strs) ==
    IF strs = <<>> THEN <<>>
    ELSE IF Len(strs) = 1 THEN <<strs[1]>>
    ELSE <<strs[1], sep>> \o JoinStrings(sep, Tail(strs))

\* _store_user_query that stores the memory-enhanced query as the content
_store_user_query_Enhanced(q, res) ==
    [role |-> "user", content |-> _build_context_enhanced_query(q, history),
     metadata |-> [agents_involved |-> res.agents_involved,
                   delegation_strategy |-> config.delegation_strategy]]

_store_user_query(q, res) ==
    [role |-> "user", content |-> <<q>>,
     metadata |-> [agents_involved |-> res.agents_involved,
                   delegation_strategy |-> config.delegation_strategy]]

\* (the metadata always carries the workflow key here; the code adds it only
\* when the list is not empty)
_store_agent_responses(res) ==
    [role |-> "assistant", content |-> JoinStrings(" ", res.responses),
     metadata |-> [agents |-> res.agents_involved, status |-> res.status,
                   duration |-> res.duration,
                   response_count |-> Len(res.responses),
                   workflow_steps |-> Len(res.workflow),
                   errors |-> res.errors, workflow |-> res.workflow]]

\* the provider's turns after _store_conversation_turn, lines 146-151, 522-539
_store_conversation_turn(q, res, store) ==
    IF ~_is_memory_available \/ store = "raise_user" THEN history
    ELSE IF res.responses = <<>> \/ store = "raise_assistant"
    THEN Append(history, _store_user_query(q, res))
    ELSE history \o <<_store_user_query(q, res), _store_agent_responses(res)>>

(* ---------------------------- aggregation ----------------------------- *)
\* "Timeout" in str(response.error)
IsTimeoutError(error) == Contains(CharsOf(error), CharsOf("Timeout"))

\* ProcessResponse recording the name of the handoff target instead of the
\* name of the agent that answered
ProcessResponse_WrongName(res, response) ==
    IF response.success
    THEN [res EXCEPT
            !.responses = Append(@, response.response),
            !.agents_involved = Append(@, IF response.handoff_to # None
                                          THEN response.handoff_to
                                          ELSE response.agent_name),
            !.workflow = IF response.handoff_to # None
                         THEN Append(@, [type |-> "handoff",
                                         from |-> response.agent_name,
                                         to   |-> response.handoff_to,
                                         task |-> response.handoff_task])
                         ELSE @]
    ELSE [res EXCEPT
            !.errors = Append(@, <<response.agent_name, ": ", response.error>>)]

\* ProcessResponse recording a handoff only when it carries a task
ProcessResponse_NeedsTask(res, response) ==
    IF response.success
    THEN [res EXCEPT
            !.responses = Append(@, response.response),
            !.agents_involved = Append(@, response.agent_name),
            !.workflow = IF response.handoff_task # None
                         THEN Append(@, [type |-> "handoff",
                                         from |-> response.agent_name,
                                         to   |-> response.handoff_to,
                                         task |-> response.handoff_task])
                         ELSE @]
    ELSE [res EXCEPT
            !.errors = Append(@, <<response.agent_name, ": ", response.error>>)]

\* the body of the loop over the responses, lines 128-144
ProcessResponse(res, response) ==
    IF response.success
    THEN [res EXCEPT
            !.responses = Append(@, response.response),
            !.agents_involved = Append(@, response.agent_name),
            !.workflow = IF response.handoff_to # None
                         THEN Append(@, [type |-> "handoff",
                                         from |-> response.agent_name,
                                         to   |-> response.handoff_to,
                                         task |-> response.handoff_task])
                         ELSE @]
    ELSE [res EXCEPT
            !.errors = Append(@, <<response.agent_name, ": ", response.error>>)]

RECURSIVE ProcessResponses(_, _)
ProcessResponses(res, resps) ==
    IF resps = <<>> THEN res
    ELSE ProcessResponses(ProcessResponse(res, Head(resps)), Tail(resps))

\* timeout_count after the loop
TimeoutCount(resps) ==
    Cardinality({k \in 1..Len(resps) :
                    ~resps[k].success /\ IsTimeoutError(resps[k].error)})

\* FinalStatus that forgets the timeouts
FinalStatus_NoTimeouts(res, timeout_count, selected) ==
    IF Len(res.responses) = Len(selected) THEN "success"
    ELSE IF Len(res.responses) > 0 THEN "partial_success"
    ELSE "failure"

\* lines 157-163
FinalStatus(res, timeout_count, selected) ==
    IF Len(res.responses) = Len(selected) THEN "success"
    ELSE IF Len(res.responses) > 0 \/ timeout_count > 0 THEN "partial_success"
    ELSE "failure"

\* ExecuteExcept that records the error but leaves the status as it was
ExecuteExcept_NoStatus(res, e) ==
    [res EXCEPT !.errors = Append(@, <<e>>)]

\* the handler of `except Exception`, lines 176-180
ExecuteExcept(res, e) ==
    [res EXCEPT !.status = "failure", !.errors = Append(@, <<e>>)]

\* a slice that keeps the whole list
Truncate_Whole(s, n) == s

\* the slice s[:n]
Truncate(s, n) ==
    IF n < 0 THEN SubSeq(s, 1, Len(s) + n)
    ELSE IF Len(s) <= n THEN s ELSE SubSeq(s, 1, n)

(* ----------------------------- verticals ------------------------------ *)
\* VerticalSupervisor._analyze_responses, lines 610-625 (the confidence as
\* its decimal text)
_analyze_responses(resps) ==
    LET joined == Lower(Flatten(JoinStrings(" ", resps)))
        analysis == [summary |-> JoinStrings(" ", Truncate(resps, 2)),
                     confidence |-> IF Len(resps) > 2 THEN "0.8" ELSE "0.6"]
    IN  IF config.vertical = "trading"
        THEN [summary |-> analysis.summary,
              confidence |-> analysis.confidence,
              market_sentiment |->
                  IF Contains(joined, CharsOf("bullish")) THEN "bullish" ELSE "neutral",
              technical_analysis |->
                  IF Contains(joined, CharsOf("oversold"))
                  THEN "RSI indicates oversold" ELSE "neutral",
              risk_assessment |-> [position_size |-> 2]]
        ELSE analysis

\* VerticalExecute that reports success whenever it has an analysis
VerticalExecute_MarksSuccess(res) ==
    IF config.vertical = None THEN res
    ELSE [([vertical |-> config.vertical] @@ res) EXCEPT
             !.status = "success",
             !.analysis = _analyze_responses(res.responses)]

\* what execute returns for the dict res of RobotSupervisor.execute: res
\* itself on a RobotSupervisor, res with the two keys set by lines 604-606 on
\* a VerticalSupervisor
VerticalExecute(res) ==
    IF config.vertical = None THEN res
    ELSE [([vertical |-> config.vertical] @@ res) EXCEPT
             !.analysis = _analyze_responses(res.responses)]

\* what the provider may do when awaited: it is awaited only when memory
\* is available
Fetches == IF _is_memory_available THEN FetchOutcomes ELSE {"ok"}

\* the outcome of `await self.session_manager.get_conversation_history()`,
\* line 480: not called, raised, or the turns it returned
NotFetched == [status |-> "not_called", turns |-> <<>>]
Fetched(fetch) ==
    IF ~_is_memory_available THEN NotFetched
    ELSE IF fetch = "raise" THEN [status |-> "raised", turns |-> <<>>]
    ELSE [status |-> "returned", turns |-> history]
Stores == IF _is_memory_available THEN StoreOutcomes ELSE {"ok"}

\* Complete in which a failure of the provider reaches execute's handler
Complete_StoreRaises(resps, q, selected) ==
    LET aggregated == ProcessResponses(PendingResult, resps)
    IN  /\ responses' = resps
        /\ \E store \in Stores :
              /\ history' = _store_conversation_turn(q, aggregated, store)
              /\ IF store = "ok"
                 THEN /\ context' = [keys |-> {"last_query", "last_agents"},
                                     last_query |-> q,
                                     last_agents |-> aggregated.agents_involved]
                      /\ result' = VerticalExecute(
                             [aggregated EXCEPT
                                !.status = FinalStatus(aggregated, TimeoutCount(resps),
                                                       selected),
                                !.duration = "elapsed"])
                 ELSE /\ context' = context
                      /\ result' = VerticalExecute(
                                       ExecuteExcept(aggregated, "Connection Timeout"))
        /\ pc' = "returned"

\* Complete with a suspension between the two writes of lines 154-155: the
\* call has written last_query and another task runs before last_agents
Complete_SuspendsBetweenWrites(resps, q, selected) ==
    LET aggregated == ProcessResponses(PendingResult, resps)
    IN  /\ responses' = resps
        /\ \E store \in Stores :
              history' = _store_conversation_turn(q, aggregated, store)
        /\ context' = [keys |-> context.keys \cup {"last_query"},
                       last_query |-> q,
                       last_agents |-> context.last_agents]
        /\ result' = VerticalExecute(
                         [aggregated EXCEPT
                            !.status = FinalStatus(aggregated, TimeoutCount(resps), selected),
                            !.duration = "elapsed"])
        /\ pc' = "returned"

\* execute from line 126 to its return, once the dispatch has given resps
Complete(resps, q, selected) ==
    LET aggregated == ProcessResponses(PendingResult, resps)
    IN  /\ responses' = resps
        /\ \E store \in Stores :
              history' = _store_conversation_turn(q, aggregated, store)
        /\ context' = [keys |-> {"last_query", "last_agents"},
                       last_query |-> q,
                       last_agents |-> aggregated.agents_involved]
        /\ result' = VerticalExecute(
                         [aggregated EXCEPT
                            !.status = FinalStatus(aggregated, TimeoutCount(resps), selected),
                            !.duration = "elapsed"])
        /\ pc' = "returned"

(* ------------------------- sequential dispatch ------------------------ *)
\* the clock counts ticks; a second has enough of them for timeout / N to be
\* a whole number of ticks for every list of up to six agents
TicksPerSecond == 60

\* self.timeout in ticks
Timeout == config.timeout * TicksPerSecond

\* an undivided per-agent deadline
PerAgentTimeout_Whole == Timeout

\* `timeout=self.timeout / len(agents)`, line 337: the deadline of one
\* agent's wait_for
PerAgentTimeout == Timeout \div Len(selected_agents)

\* the slots from i on whose agent is registered (line 333)
RegisteredFrom(selected, i) == {k \in i..Len(selected) : Registered(selected[k])}

\* a loop that takes the agents from the end of the list
SeqAdvance_LastFirst(i, resps, q, eq, selected, log) ==
    IF RegisteredFrom(selected, i) # {}
    THEN LET k == CHOOSE m \in RegisteredFrom(selected, i) :
                     \A n \in RegisteredFrom(selected, i) : m >= n
         IN  /\ pc' = "await_agent"
             /\ slot' = k
             /\ responses' = resps
             /\ invocations' = Append(log, Invocation(selected[k], eq, k, FALSE))
             /\ result' = PendingResult
             /\ UNCHANGED <<history, context>>
    ELSE /\ slot' = Len(selected) + 1
         /\ invocations' = log
         /\ Complete(resps, q, selected)

\* _execute_sequential's loop from slot i on: call the next registered
\* agent under wait_for, or leave the loop and finish execute
SeqAdvance(i, resps, q, eq, selected, log) ==
    IF RegisteredFrom(selected, i) # {}
    THEN LET k == CHOOSE m \in RegisteredFrom(selected, i) :
                     \A n \in RegisteredFrom(selected, i) : m <= n
         IN  /\ pc' = "await_agent"
             /\ slot' = k
             /\ responses' = resps
             /\ invocations' = Append(log, Invocation(selected[k], eq, k, FALSE))
             /\ result' = PendingResult
             /\ UNCHANGED <<history, context>>
    ELSE /\ slot' = Len(selected) + 1
         /\ invocations' = log
         /\ Complete(resps, q, selected)

(* -------------------------- parallel dispatch ------------------------- *)
\* lines 283-286: one task per registered agent among agents[:max_parallel_agents]
\* (slot is the position of the agent in the agents list)
RECURSIVE ParallelTasks(_, _)
ParallelTasks(names, i) ==
    IF i > Len(names) THEN <<>>
    ELSE IF Registered(names[i])
         THEN <<[agent_name |-> names[i], slot |-> i, state |-> "pending",
                 response |-> TimeoutResponse(names[i])]>>
              \o ParallelTasks(names, i + 1)
         ELSE ParallelTasks(names, i + 1)

\* the invocation record once call k has come back with outcome
Came(log, k, outcome) == [log EXCEPT ![k].did = outcome]

(* ------------------------------ actions ------------------------------- *)
\* execute(query, parallel, specific_agents) up to its first suspension
Execute(q, par, spec) ==
    /\ pc \in {"idle", "returned"}
    /\ ncalls < MaxCalls
    /\ Len(history) < MaxHistory
    /\ ncalls' = ncalls + 1
    /\ query' = q
    /\ parallel' = par
    /\ specific_agents' = spec
    /\ \E fetch \in Fetches :
       \E eq \in {_enhance_query_with_memory(q, fetch)} :
       \E sel \in {IF spec # <<>>
                   THEN [ok |-> TRUE, agents |-> spec, error |-> None]
                   ELSE _select_agents(eq, agents, config.delegation_strategy)} :
           /\ enhanced_query' = eq
           /\ fetched_history' = Fetched(fetch)
           /\ selecting' = IF spec # <<>> THEN NoSteps
                           ELSE SelectionSteps(eq, agents, config.delegation_strategy)
           /\ selected_agents' = sel.agents
           /\ IF ~sel.ok
              THEN /\ result' = VerticalExecute(ExecuteExcept(PendingResult, sel.error))
                   /\ pc' = "returned"
                   /\ responses' = <<>>
                   /\ slot' = 0
                   /\ tasks' = <<>>
                   /\ invocations' = <<>>
                   /\ UNCHANGED <<history, context>>
              ELSE IF par /\ Len(sel.agents) > 1
              THEN LET ts == ParallelTasks(Truncate(sel.agents, config.max_parallel_agents), 1)
                   IN  /\ tasks' = ts
                       /\ invocations' = [k \in 1..Len(ts) |->
                                            Invocation(ts[k].agent_name, eq, ts[k].slot, FALSE)]
                       /\ pc' = "par_wait"
                       /\ responses' = <<>>
                       /\ slot' = 0
                       /\ result' = PendingResult
                       /\ UNCHANGED <<history, context>>
              ELSE /\ tasks' = <<>>
                   /\ SeqAdvance(1, <<>>, q, eq, sel.agents, <<>>)
    /\ cancelled' = {}
    /\ clock' = 0
    /\ UNCHANGED <<parked, agents, config, session_manager, discussion, employees>>

\* sequential mode: the awaited agent's execute comes back d ticks after
\* its call, within the deadline of its wait_for
AgentReturnsAfter(outcome, d) ==
    /\ pc = "await_agent"
    /\ d <= PerAgentTimeout
    /\ clock' = clock + d
    /\ LET response == _execute_single_agent(selected_agents[slot], outcome)
           resps == Append(responses, response)
       IN  IF response.handoff_to # None /\ Registered(response.handoff_to)
           THEN /\ pc' = "await_handoff"
                /\ responses' = resps
                /\ invocations' = Append(Came(invocations, Len(invocations), outcome),
                       Invocation(response.handoff_to,
                                  IF response.handoff_task # None
                                  THEN <<response.handoff_task>> ELSE enhanced_query,
                                  slot, TRUE))
                /\ UNCHANGED <<slot, history, context, result>>
           ELSE SeqAdvance(slot + 1, resps, query, enhanced_query, selected_agents,
                           Came(invocations, Len(invocations), outcome))
    /\ UNCHANGED <<parked, agents, config, session_manager, discussion, cancelled, employees, selecting, fetched_history, ncalls, query, parallel,
                   specific_agents, enhanced_query, selected_agents, tasks>>

\* sequential mode: the awaited agent's execute comes back at once
AgentReturns(outcome) == AgentReturnsAfter(outcome, 0)

\* sequential mode: wait_for's deadline elapses first, lines 349-356
SeqTimeout ==
    /\ pc = "await_agent"
    /\ clock' = clock + PerAgentTimeout
    /\ SeqAdvance(slot + 1, Append(responses, TimeoutResponse(selected_agents[slot])),
                  query, enhanced_query, selected_agents, invocations)
    \* wait_for cancels the call it was waiting for
    /\ cancelled' = cancelled \cup {Len(invocations)}
    /\ UNCHANGED <<parked, agents, config, session_manager, discussion, employees, selecting, fetched_history, ncalls, query, parallel,
                   specific_agents, enhanced_query, selected_agents, tasks>>

\* a handoff target whose own handoff request is followed in turn
HandoffReturnsAfter_Chains(outcome, d) ==
    /\ pc = "await_handoff"
    /\ clock' = clock + d
    /\ LET target == responses[Len(responses)].handoff_to
           handoff_response == _execute_single_agent(target, outcome)
           resps == Append(responses, handoff_response)
       IN  IF handoff_response.handoff_to # None /\ Registered(handoff_response.handoff_to)
           THEN /\ pc' = "await_handoff"
                /\ responses' = resps
                /\ invocations' = Append(Came(invocations, Len(invocations), outcome),
                       Invocation(handoff_response.handoff_to, enhanced_query, slot, TRUE))
                /\ UNCHANGED <<slot, history, context, result>>
           ELSE SeqAdvance(slot + 1, resps, query, enhanced_query, selected_agents,
                           Came(invocations, Len(invocations), outcome))
    /\ UNCHANGED <<parked, agents, config, session_manager, discussion, cancelled, employees, selecting, fetched_history, ncalls, query, parallel,
                   specific_agents, enhanced_query, selected_agents, tasks>>

\* sequential mode: the handoff target's execute comes back d ticks after
\* its call, lines 343-347 (this await has no deadline)
HandoffReturnsAfter(outcome, d) ==
    /\ pc = "await_handoff"
    /\ clock' = clock + d
    /\ LET target == responses[Len(responses)].handoff_to
           handoff_response == _execute_single_agent(target, outcome)
       IN  SeqAdvance(slot + 1, Append(responses, handoff_response), query,
                      enhanced_query, selected_agents,
                      Came(invocations, Len(invocations), outcome))
    /\ UNCHANGED <<parked, agents, config, session_manager, discussion, cancelled, employees, selecting, fetched_history, ncalls, query, parallel,
                   specific_agents, enhanced_query, selected_agents, tasks>>

\* sequential mode: the handoff target's execute comes back at once
HandoffReturns(outcome) == HandoffReturnsAfter(outcome, 0)

\* TaskFinishes for agents run one after the other: a task comes back only
\* once the tasks before it have
TaskFinishes_InOrder(k, outcome) ==
    /\ pc = "par_wait"
    /\ k \in 1..Len(tasks)
    /\ tasks[k].state = "pending"
    /\ \A j \in 1..(k - 1) : tasks[j].state = "done"
    /\ tasks' = [tasks EXCEPT ![k] =
                    [@ EXCEPT !.state = "done",
                              !.response = _execute_single_agent(@.agent_name, outcome)]]
    /\ invocations' = Came(invocations, k, outcome)
    /\ UNCHANGED <<parked, agents, config, session_manager, discussion, cancelled, clock, employees, selecting, fetched_history, history, context, pc, ncalls,
                   query, parallel, specific_agents, enhanced_query,
                   selected_agents, responses, slot, result>>

\* parallel mode: one task's agent comes back before the shared deadline
TaskFinishes(k, outcome) ==
    /\ pc = "par_wait"
    /\ k \in 1..Len(tasks)
    /\ tasks[k].state = "pending"
    /\ tasks' = [tasks EXCEPT ![k] =
                    [@ EXCEPT !.state = "done",
                              !.response = _execute_single_agent(@.agent_name, outcome)]]
    /\ invocations' = Came(invocations, k, outcome)
    /\ UNCHANGED <<parked, agents, config, session_manager, discussion, cancelled, clock, employees, selecting, fetched_history, history, context, pc, ncalls,
                   query, parallel, specific_agents, enhanced_query,
                   selected_agents, responses, slot, result>>

\* parallel mode: gather has every result, lines 290-309
GatherDone ==
    /\ pc = "par_wait"
    /\ \A k \in 1..Len(tasks) : tasks[k].state = "done"
    /\ Complete([k \in 1..Len(tasks) |-> tasks[k].response], query,
                selected_agents)
    /\ UNCHANGED <<parked, agents, config, session_manager, discussion, cancelled, clock, employees, selecting, fetched_history, ncalls, query, parallel,
                   specific_agents, enhanced_query, selected_agents, slot, tasks,
                   invocations>>

\* parallel mode: the shared deadline elapses with a task pending, lines 311-322
ParallelTimeout ==
    /\ pc = "par_wait"
    /\ \E k \in 1..Len(tasks) : tasks[k].state = "pending"
    /\ Complete([k \in 1..Len(selected_agents) |-> TimeoutResponse(selected_agents[k])],
                query, selected_agents)
    \* wait_for cancels the gather, and the gather its unfinished tasks
    /\ cancelled' = cancelled \cup {k \in 1..Len(tasks) : tasks[k].state = "pending"}
    /\ UNCHANGED <<parked, agents, config, session_manager, discussion, clock, employees, selecting, fetched_history, ncalls, query, parallel,
                   specific_agents, enhanced_query, selected_agents, slot, tasks,
                   invocations>>

(* --------------------------- specification ---------------------------- *)
\* no discussion is under way
NoDiscussion == [topic |-> "", robots |-> <<>>, rounds |-> 0, round_num |-> 0, robot |-> 0]

\* no call has been made yet
\* the frame of an execute call: its arguments, its locals and where it
\* is suspended
Frame(at, q, par, spec, eq, sel, resps, i, ts, res, log, fetched, gone, ticks) ==
    [pc |-> at, query |-> q, parallel |-> par, specific_agents |-> spec,
     enhanced_query |-> eq, selected_agents |-> sel, responses |-> resps,
     slot |-> i, tasks |-> ts, result |-> res, invocations |-> log,
     fetched_history |-> fetched, cancelled |-> gone, clock |-> ticks]

\* a call that has not been made yet
NotStarted ==
    Frame("idle", "", FALSE, <<>>, <<>>, <<>>, <<>>, 0, <<>>, PendingResult, <<>>,
          NotFetched, {}, 0)

NothingCalled ==
    /\ context = EmptyContext
    /\ parked = NotStarted
    /\ ncalls = 0
    /\ query = ""
    /\ parallel = FALSE
    /\ specific_agents = <<>>
    /\ enhanced_query = <<>>
    /\ selected_agents = <<>>
    /\ responses = <<>>
    /\ slot = 0
    /\ tasks = <<>>
    /\ result = PendingResult
    /\ invocations = <<>>
    /\ fetched_history = NotFetched
    /\ discussion = NoDiscussion
    /\ cancelled = {}
    /\ employees = [given |-> <<>>, now |-> <<>>]
    /\ selecting = NoSteps
    /\ clock = 0

\* a supervisor on which no call has been made yet
NoCall == pc = "idle" /\ NothingCalled

\* d.get(key, default)
Get(d, key, default) == IF key \in DOMAIN d THEN d[key] ELSE default

\* one of the supervisors of setups, as __init__ leaves it (lines 68-90), with
\* the session provider holding the turns the setup names
InitFrom(setups) ==
    /\ \E s \in setups :
          /\ agents = s.agents
          /\ config = [name |-> "supervisor",
                       timeout |-> Get(s, "timeout", DefaultTimeout),
                       max_parallel_agents |-> s.max_parallel_agents,
                       delegation_strategy |-> s.strategy,
                       memory_enabled |-> s.memory_enabled,
                       conversation_history_limit |->
                           Get(s, "conversation_history_limit", DefaultHistoryLimit),
                       vertical |-> Get(s, "vertical", None)]
          /\ session_manager = s.session_manager
          /\ history = Get(s, "history", <<>>)
    /\ NoCall

Init == InitFrom(Setups)

Next ==
    \/ \E r \in Requests, par \in BOOLEAN :
            Execute(r.query, par, r.specific_agents)
    \/ \E outcome \in AgentOutcomes : AgentReturns(outcome)
    \/ SeqTimeout
    \/ \E outcome \in AgentOutcomes : HandoffReturns(outcome)
    \/ \E k \in 1..Len(tasks), outcome \in AgentOutcomes : TaskFinishes(k, outcome)
    \/ GatherDone
    \/ ParallelTimeout

Spec == Init /\ [][Next]_vars

\* the scheduler runs the coordinator whenever it can run and fires a
\* deadline that has elapsed; nothing obliges an agent to come back
FairSpec ==
    /\ Spec
    /\ WF_vars(SeqTimeout)
    /\ WF_vars(ParallelTimeout)
    /\ WF_vars(GatherDone)

(* ----------------------- sequential dispatch, timed ------------------- *)
\* supervisors with a timeout of one second and of thirty seconds
TimedSetups ==
    { [agents |-> <<"RoboNerd", "RoboFriend", "RoboDrama">>, strategy |-> "skill_based",
       max_parallel_agents |-> DefaultMaxParallel, memory_enabled |-> FALSE,
       session_manager |-> "unset", timeout |-> t] : t \in {1, DefaultTimeout} }

\* lists of one, two and three agents, and one with a name that is not
\* registered
TimedRequests ==
    { [query |-> "Test query", specific_agents |-> <<>>],
      [query |-> "Test query", specific_agents |-> <<"RoboFriend", "RoboNerd">>],
      [query |-> "Test query", specific_agents |-> <<"RoboNerd", "Ghost">>],
      [query |-> "Test query",
       specific_agents |-> <<"RoboDrama", "RoboFriend", "RoboNerd">>] }

TimedOutcomes ==
    { [kind |-> "text", handoff_to |-> None, handoff_task |-> None, error |-> None],
      [kind |-> "dict", handoff_to |-> "RoboNerd",
       handoff_task |-> "Explain the technical details", error |-> None],
      [kind |-> "raise", handoff_to |-> None, handoff_task |-> None,
       error |-> "Calculation error"] }

TimedInit == InitFrom(TimedSetups)

\* sequential execute calls whose agents answer at once, at the last moment
\* of their deadline, or not before it; a handoff target answers at once or
\* after the whole timeout
TimedNext ==
    \/ \E r \in TimedRequests : Execute(r.query, FALSE, r.specific_agents)
    \/ \E outcome \in TimedOutcomes, at_once \in BOOLEAN :
            AgentReturnsAfter(outcome, IF at_once THEN 0 ELSE PerAgentTimeout)
    \/ SeqTimeout
    \/ \E outcome \in TimedOutcomes, d \in {0, Timeout} :
            HandoffReturnsAfter(outcome, d)

TimedSpec == TimedInit /\ [][TimedNext]_vars

(* -------------------- several calls on one supervisor ------------------ *)
\* asyncio runs one task at a time and changes task only where the running
\* one awaits something that suspends: the wait_for of a dispatch (lines
\* 121-124, 335-338, 309-312) or the await of a handoff (line 346).  Every
\* action above runs one call from one such point to the next, so the other
\* call can be resumed in every state: the two frames change places, and
\* what belongs to the supervisor object stays as it is.
Resume ==
    /\ parked' = Frame(pc, query, parallel, specific_agents, enhanced_query,
                       selected_agents, responses, slot, tasks, result, invocations,
                       fetched_history, cancelled, clock)
    /\ pc' = parked.pc
    /\ query' = parked.query
    /\ parallel' = parked.parallel
    /\ specific_agents' = parked.specific_agents
    /\ enhanced_query' = parked.enhanced_query
    /\ selected_agents' = parked.selected_agents
    /\ responses' = parked.responses
    /\ slot' = parked.slot
    /\ tasks' = parked.tasks
    /\ result' = parked.result
    /\ invocations' = parked.invocations
    /\ fetched_history' = parked.fetched_history
    /\ cancelled' = parked.cancelled
    /\ clock' = parked.clock
    /\ UNCHANGED <<agents, config, session_manager, history, context, ncalls,
                   discussion, employees, selecting>>

ConcurrentSetups ==
    { [agents |-> <<"RoboNerd", "RoboFriend">>, strategy |-> "skill_based",
       max_parallel_agents |-> DefaultMaxParallel, memory_enabled |-> FALSE,
       session_manager |-> "unset"] }

\* two calls that differ in their query and in the agents they involve
ConcurrentRequests ==
    { [query |-> "Calculate 2+2 and tell a joke", specific_agents |-> <<>>],
      [query |-> "Test query", specific_agents |-> <<"RoboFriend">>] }

ConcurrentOutcomes ==
    { [kind |-> "text", handoff_to |-> None, handoff_task |-> None, error |-> None],
      [kind |-> "dict", handoff_to |-> "RoboNerd",
       handoff_task |-> "Explain the technical details", error |-> None],
      [kind |-> "raise", handoff_to |-> None, handoff_task |-> None,
       error |-> "Calculation error"] }

ConcurrentInit == InitFrom(ConcurrentSetups)

\* two tasks, each making execute calls, interleaved at their awaits
ConcurrentNext ==
    \/ \E r \in ConcurrentRequests, par \in BOOLEAN :
            Execute(r.query, par, r.specific_agents)
    \/ \E outcome \in ConcurrentOutcomes : AgentReturns(outcome)
    \/ SeqTimeout
    \/ \E outcome \in ConcurrentOutcomes : HandoffReturns(outcome)
    \/ \E k \in 1..Len(tasks), outcome \in ConcurrentOutcomes : TaskFinishes(k, outcome)
    \/ GatherDone
    \/ ParallelTimeout
    \/ Resume

ConcurrentSpec == ConcurrentInit /\ [][ConcurrentNext]_vars

(* ------------------------ parallel dispatch alone --------------------- *)
\* a registry of five agents that one query selects all of, with room for
\* three parallel agents
ParallelSetups ==
    { [agents |-> <<"RoboNerd", "MarketAnalyst", "QuantResearcher", "RiskManager",
                    "PayrollProcessor">>,
       strategy |-> "skill_based", max_parallel_agents |-> DefaultMaxParallel,
       memory_enabled |-> FALSE, session_manager |-> "unset"] }

ParallelRequests ==
    { [query |-> "Analyze AAPL payroll risk", specific_agents |-> <<>>],
      [query |-> "Test query",
       specific_agents |-> <<"MarketAnalyst", "Ghost", "RiskManager", "RoboNerd">>] }

ParallelInit == InitFrom(ParallelSetups)

\* execute(query, parallel=True, ...) calls only
ParallelNext ==
    \/ \E r \in ParallelRequests : Execute(r.query, TRUE, r.specific_agents)
    \/ \E k \in 1..Len(tasks), outcome \in AgentOutcomes : TaskFinishes(k, outcome)
    \/ GatherDone
    \/ ParallelTimeout

ParallelSpec == ParallelInit /\ [][ParallelNext]_vars

\* the event loop runs the coordinator when gather has every result and
\* fires the shared deadline when it elapses
ParallelFairSpec ==
    /\ ParallelSpec
    /\ WF_vars(GatherDone)
    /\ WF_vars(ParallelTimeout)

(* --------------------------- memory alone ----------------------------- *)
\* the turns of test_conversation_memory_persistence
AliceTurns ==
    <<[role |-> "user", content |-> <<"My name is Alice">>],
      [role |-> "assistant", content |-> <<"Nice to meet you Alice!">>]>>

\* the same with an assistant turn of 9 * 23 = 207 characters
LongTurns ==
    <<[role |-> "user", content |-> <<"My name is Alice">>],
      [role |-> "assistant",
       content |-> [k \in 1..9 |-> "Nice to meet you Alice!"]]>>

\* supervisors with memory_enabled: the provider not supplied, or supplied
\* and holding no turn or the turns of an earlier conversation
MemorySetups ==
    { [agents |-> <<"RoboNerd", "RoboFriend">>, strategy |-> "skill_based",
       max_parallel_agents |-> DefaultMaxParallel, memory_enabled |-> TRUE,
       session_manager |-> "None", conversation_history_limit |-> DefaultHistoryLimit,
       history |-> <<>>] }
    \cup
    { [agents |-> <<"RoboNerd", "RoboFriend">>, strategy |-> "skill_based",
       max_parallel_agents |-> DefaultMaxParallel, memory_enabled |-> TRUE,
       session_manager |-> "provider", conversation_history_limit |-> s.limit,
       history |-> s.history] :
        s \in {[limit |-> DefaultHistoryLimit, history |-> <<>>],
               [limit |-> DefaultHistoryLimit, history |-> AliceTurns],
               [limit |-> 1, history |-> AliceTurns],
               [limit |-> 0, history |-> AliceTurns],
               [limit |-> DefaultHistoryLimit, history |-> LongTurns]} }
    \cup
    { [agents |-> <<"RoboNerd", "RoboParrot">>, strategy |-> "skill_based",
       max_parallel_agents |-> DefaultMaxParallel, memory_enabled |-> TRUE,
       session_manager |-> "provider",
       conversation_history_limit |-> DefaultHistoryLimit, history |-> AliceTurns] }

MemoryRequests ==
    { [query |-> "My name is Alice", specific_agents |-> <<>>],
      [query |-> "What's my name?", specific_agents |-> <<>>],
      [query |-> "What's my name?", specific_agents |-> <<"RoboFriend", "RoboNerd">>],
      [query |-> "What's my name?", specific_agents |-> <<"RoboParrot">>] }

MemoryInit == InitFrom(MemorySetups)

\* what an agent's execute does in these calls: it answers or it raises
MemoryOutcomes ==
    {o \in AgentOutcomes :
        \/ o.kind = "text"
        \/ o.kind = "raise" /\ o.error = "Calculation error"}

MemoryNext ==
    \/ \E r \in MemoryRequests : Execute(r.query, FALSE, r.specific_agents)
    \/ \E outcome \in MemoryOutcomes : AgentReturns(outcome)
    \/ SeqTimeout

MemorySpec == MemoryInit /\ [][MemoryNext]_vars

(* --------------------------- verticals alone -------------------------- *)
\* VerticalSupervisor(vertical, agents, config) on the trading team of
\* test_trading_workflow, as a trading and as a payroll vertical, and on no
\* agent at all
VerticalSetups ==
    { [agents |-> a, strategy |-> "skill_based",
       max_parallel_agents |-> DefaultMaxParallel, memory_enabled |-> FALSE,
       session_manager |-> "unset", vertical |-> v] :
        a \in {<<"MarketAnalyst", "QuantResearcher", "RiskManager">>, <<>>},
        v \in {"trading", "payroll"} }

VerticalRequests ==
    { [query |-> "Analyze AAPL for trading opportunity", specific_agents |-> <<>>],
      [query |-> "Test query", specific_agents |-> <<>>],
      [query |-> "Test query", specific_agents |-> <<"RiskManager", "Ghost">>] }

VerticalInit == InitFrom(VerticalSetups)

VerticalNext ==
    \/ \E r \in VerticalRequests, par \in BOOLEAN :
            Execute(r.query, par, r.specific_agents)
    \/ \E outcome \in MemoryOutcomes : AgentReturns(outcome)
    \/ SeqTimeout
    \/ \E k \in 1..Len(tasks), outcome \in MemoryOutcomes : TaskFinishes(k, outcome)
    \/ GatherDone
    \/ ParallelTimeout

VerticalSpec == VerticalInit /\ [][VerticalNext]_vars

(* ------------------------------ payroll ------------------------------- *)
\* Amounts of money are counted in halves of the currency unit, so that the
\* factor 1.5 keeps them whole.
OvertimeThreshold == 40
Halves(amount) == 2 * amount
OneAndHalf(amount) == 3 * amount

\* emp_data after the loop body that pays overtime at the plain rate
ProcessRecord_PlainOvertime(emp) ==
    IF emp.hours > OvertimeThreshold
    THEN LET overtime_hours == emp.hours - OvertimeThreshold
         IN  [overtime_hours |-> overtime_hours,
              gross_pay |-> Halves(OvertimeThreshold * emp.rate)
                            + Halves(overtime_hours * emp.rate)] @@ emp
    ELSE [overtime_hours |-> 0, gross_pay |-> Halves(emp.hours * emp.rate)] @@ emp

\* emp_data after the loop body, lines 671-679: the copy of emp with the two
\* keys set
ProcessRecord(emp) ==
    IF emp.hours > OvertimeThreshold
    THEN LET overtime_hours == emp.hours - OvertimeThreshold
         IN  [overtime_hours |-> overtime_hours,
              gross_pay |-> Halves(OvertimeThreshold * emp.rate)
                            + OneAndHalf(overtime_hours * emp.rate)] @@ emp
    ELSE [overtime_hours |-> 0, gross_pay |-> Halves(emp.hours * emp.rate)] @@ emp

\* the caller's record after the loop body: line 671 copies it, and the
\* writes of lines 675-679 go to the copy
CallerRecord(emp) == emp

\* lines 662-666
workflow_steps ==
    <<[agent |-> "PayrollProcessor", task |-> "process_timesheets"],
      [agent |-> "TaxCalculator", task |-> "calculate_taxes"],
      [agent |-> "ComplianceAgent", task |-> "check_compliance"]>>

\* PayrollSupervisor.process_payroll(employees, pay_period); it never suspends
ProcessPayroll(emps, pay_period) ==
    /\ pc \in {"idle", "returned"}
    /\ ncalls < MaxCalls
    /\ ncalls' = ncalls + 1
    /\ pc' = "returned"
    /\ employees' = [given |-> emps,
                     now   |-> [k \in DOMAIN emps |-> CallerRecord(emps[k])]]
    /\ result' = [status |-> "success",
                  pay_period |-> pay_period,
                  processed_employees |->
                      [k \in DOMAIN emps |-> ProcessRecord(emps[k])],
                  workflow_steps |-> workflow_steps]
    /\ UNCHANGED <<parked, agents, config, session_manager, history, context, query, parallel,
                   specific_agents, enhanced_query, selected_agents, responses,
                   slot, tasks, invocations, fetched_history, discussion, cancelled,
                   selecting, clock>>

\* PayrollSupervisor(agents, config) on the payroll team of test_payroll_workflow
PayrollSetups ==
    { [agents |-> <<"PayrollProcessor", "TaxCalculator", "ComplianceAgent">>,
       strategy |-> "skill_based", max_parallel_agents |-> DefaultMaxParallel,
       memory_enabled |-> FALSE, session_manager |-> "unset",
       vertical |-> "payroll"] }

\* employee records: hours below, at and above the threshold; one record
\* comes with an overtime_hours key of its own
EmployeeRecords ==
    { [id |-> "E001", hours |-> h, rate |-> r] : h \in {0, 40, 41, 45}, r \in {25, 30} }
    \cup { [id |-> "E003", hours |-> 45, rate |-> 30, overtime_hours |-> 99] }

\* process_payroll is given at most this many employee records
MaxEmployees == 2

EmployeeLists ==
    UNION { [1..n -> EmployeeRecords] : n \in 0..MaxEmployees }

PayrollInit == InitFrom(PayrollSetups)

PayrollNext ==
    \E emps \in EmployeeLists : ProcessPayroll(emps, "2024-01-01 to 2024-01-15")

PayrollSpec == PayrollInit /\ [][PayrollNext]_vars

(* ---------------------------- discussion ------------------------------ *)
DiscussionMessageWindow == 3
DiscussionTextLimit == 100

\* msg['text'][:100]
First100(text) ==
    IF Len(Flatten(text)) <= DiscussionTextLimit THEN text
    ELSE SubSeq(Flatten(text), 1, DiscussionTextLimit)

\* the lines of the messages, lines 448-449
RECURSIVE PreviousLines(_)
PreviousLines(msgs) ==
    IF msgs = <<>> THEN <<>>
    ELSE <<Head(msgs).robot, ": ">> \o First100(<<Head(msgs).text>>) \o <<"...\n">>
         \o PreviousLines(Tail(msgs))

\* enhanced_context, lines 445-452
DiscussionPrompt(topic, conversation) ==
    <<"Topic: ", topic, "\n">>
    \o (IF conversation # <<>>
        THEN <<"Previous discussion:\n">>
             \o PreviousLines(LastN(conversation, DiscussionMessageWindow))
        ELSE <<>>)
    \o <<"\nWhat are your thoughts?">>

\* the conversation entry with the round counted from zero
DiscussionTurn_ZeroBased(robot_name, text, round_num) ==
    [robot |-> robot_name, text |-> text, round |-> round_num]

\* the conversation entry of lines 461-465
DiscussionTurn(robot_name, text, round_num) ==
    [robot |-> robot_name, text |-> text, round |-> round_num + 1]

\* DiscussionRecord that keeps an error entry for a turn that failed
DiscussionRecord_WithErrors(res, response, round_num) ==
    IF response.success
    THEN [res EXCEPT !.conversation =
             Append(@, DiscussionTurn(response.agent_name, response.response, round_num))]
    ELSE [res EXCEPT !.errors = Append(@, <<response.agent_name, ": ", response.error>>)]

\* lines 460-465: what a turn's response does to the result
DiscussionRecord(res, response, round_num) ==
    IF response.success
    THEN [res EXCEPT !.conversation =
             Append(@, DiscussionTurn(response.agent_name, response.response, round_num))]
    ELSE res

\* the next position (round_num, robot) of the two loops, from (r, i) on,
\* whose robot is registered (lines 441-443)
RECURSIVE NextTurn(_, _, _, _)
NextTurn(robots, rounds, r, i) ==
    IF r >= rounds THEN [found |-> FALSE, round_num |-> r, robot |-> 0]
    ELSE IF i > Len(robots) THEN NextTurn(robots, rounds, r + 1, 1)
    ELSE IF Registered(robots[i]) THEN [found |-> TRUE, round_num |-> r, robot |-> i]
    ELSE NextTurn(robots, rounds, r, i + 1)

\* the loops from position (r, i) on: call the next registered robot, or
\* set the status and return (lines 467-468)
DiscussionStep(topic, robots, rounds, r, i, res, log) ==
    LET nt == NextTurn(robots, rounds, r, i)
    IN  IF nt.found
        THEN /\ pc' = "await_turn"
             /\ discussion' = [topic |-> topic, robots |-> robots, rounds |-> rounds,
                               round_num |-> nt.round_num, robot |-> nt.robot]
             /\ result' = res
             /\ invocations' =
                   Append(log, Invocation(robots[nt.robot],
                                          DiscussionPrompt(topic, res.conversation),
                                          nt.robot, FALSE))
        ELSE /\ pc' = "returned"
             /\ discussion' = [topic |-> topic, robots |-> robots, rounds |-> rounds,
                               round_num |-> rounds, robot |-> 0]
             /\ result' = [res EXCEPT !.status = "success"]
             /\ invocations' = log

\* execute_multi_robot_discussion(topic, robots, rounds) up to its first
\* suspension
Discuss(topic, robots, rounds) ==
    /\ pc \in {"idle", "returned"}
    /\ ncalls < MaxCalls
    /\ ncalls' = ncalls + 1
    /\ DiscussionStep(topic, robots, rounds, 0, 1, PendingResult, <<>>)
    /\ UNCHANGED <<parked, agents, config, session_manager, fetched_history, history, context,
                   cancelled, clock, employees, selecting,
                   query, parallel, specific_agents, enhanced_query, selected_agents,
                   responses, slot, tasks>>

\* the awaited robot's execute comes back (the await of line 455 has no
\* deadline)
TurnReturns(outcome) ==
    /\ pc = "await_turn"
    /\ LET robot_name == discussion.robots[discussion.robot]
           response == _execute_single_agent(robot_name, outcome)
       IN  DiscussionStep(discussion.topic, discussion.robots, discussion.rounds,
                          discussion.round_num, discussion.robot + 1,
                          DiscussionRecord(result, response, discussion.round_num),
                          Came(invocations, Len(invocations), outcome))
    /\ UNCHANGED <<parked, agents, config, session_manager, fetched_history, history, context,
                   cancelled, clock, employees, selecting,
                   ncalls, query, parallel, specific_agents, enhanced_query,
                   selected_agents, responses, slot, tasks>>

DiscussionSetups ==
    { [agents |-> <<"RoboFriend", "RoboNerd", "RoboZen">>, strategy |-> "skill_based",
       max_parallel_agents |-> DefaultMaxParallel, memory_enabled |-> FALSE,
       session_manager |-> "unset"] }

DiscussionRobots ==
    { <<"RoboFriend", "RoboNerd", "RoboZen">>, <<"RoboNerd", "Ghost">> }

\* what a robot's execute does in a discussion
DiscussionOutcomes ==
    {o \in AgentOutcomes :
        \/ o.kind = "text"
        \/ o.kind = "dict" /\ o.handoff_to = "RoboNerd"
        \/ o.kind = "raise" /\ o.error = "Calculation error"}

DiscussionInit == InitFrom(DiscussionSetups)

DiscussionNext ==
    \/ \E robots \in DiscussionRobots, rounds \in 0..MaxRounds :
            Discuss("What is the essence of programming?", robots, rounds)
    \/ \E outcome \in DiscussionOutcomes : TurnReturns(outcome)

DiscussionSpec == DiscussionInit /\ [][DiscussionNext]_vars

(* ---------------------------- construction ---------------------------- *)
\* the values of the DelegationStrategy enum
DelegationStrategies == {"skill_based", "round_robin", "load_balanced", "specialized"}

\* validate_config that lets a timeout of zero through
validate_config_NegativeOnly(cfg) ==
    IF "name" \notin DOMAIN cfg THEN "Supervisor configuration must include 'name'"
    ELSE IF "timeout" \in DOMAIN cfg /\ cfg.timeout < 0
         THEN "Supervisor timeout must be positive"
    ELSE None

\* validate_config: the message of the ValueError it raises, None when it
\* returns
validate_config(cfg) ==
    IF "name" \notin DOMAIN cfg THEN "Supervisor configuration must include 'name'"
    ELSE IF "timeout" \in DOMAIN cfg /\ cfg.timeout <= 0
         THEN "Supervisor timeout must be positive"
    ELSE None

\* the config dicts a caller hands to RobotSupervisor(agents, config)
ConfigArgs ==
    { [k \in {} |-> None],
      [name |-> "TestSupervisor"],
      [timeout |-> 30],
      [name |-> "TestSupervisor", timeout |-> 30],
      [name |-> "TestSupervisor", timeout |-> 1],
      [name |-> "TestSupervisor", timeout |-> 0],
      [name |-> "TestSupervisor", timeout |-> -1],
      [timeout |-> -1],
      [name |-> "TestSupervisor", timeout |-> 30, max_parallel_agents |-> 1,
       delegation_strategy |-> "round_robin"],
      [name |-> "TestSupervisor", delegation_strategy |-> "fastest"],
      [name |-> "TestSupervisor", memory_enabled |-> TRUE] }

\* before RobotSupervisor(agents, config) is evaluated: agents and config hold
\* the two arguments
ConstructInit ==
    /\ pc = "new"
    /\ agents = <<"RoboNerd", "RoboFriend">>
    /\ config \in ConfigArgs
    /\ session_manager = "unset"
    /\ history = <<>>
    /\ NothingCalled

\* RobotSupervisor.__init__(agents, config); import_ok tells whether
\* src.neon.session_manager can be imported (line 85).  When it raises (the
\* ValueError of validate_config or of the DelegationStrategy enum) the
\* caller gets no object.
Construct(import_ok) ==
    /\ pc = "new"
    /\ IF \/ validate_config(config) # None
          \/ Get(config, "delegation_strategy", "skill_based") \notin DelegationStrategies
       THEN /\ pc' = "construct_raised"
            /\ UNCHANGED <<config, session_manager>>
       ELSE /\ pc' = "idle"
            /\ config' = [name |-> config.name,
                          timeout |-> Get(config, "timeout", DefaultTimeout),
                          max_parallel_agents |->
                              Get(config, "max_parallel_agents", DefaultMaxParallel),
                          delegation_strategy |->
                              Get(config, "delegation_strategy", "skill_based"),
                          memory_enabled |->
                              Get(config, "memory_enabled", FALSE) /\ import_ok,
                          conversation_history_limit |->
                              Get(config, "conversation_history_limit", DefaultHistoryLimit),
                          vertical |-> None]
            /\ session_manager' = IF Get(config, "memory_enabled", FALSE) /\ import_ok
                                  THEN "None" ELSE "unset"
    /\ UNCHANGED <<parked, agents, discussion, cancelled, clock, employees, selecting, fetched_history, history, context, ncalls,
                   query, parallel, specific_agents, enhanced_query, selected_agents,
                   responses, slot, tasks, result, invocations>>

\* construction, then sequential execute calls on what it gave
ConstructNext ==
    \/ \E import_ok \in BOOLEAN : Construct(import_ok)
    \/ Execute("Test query", FALSE, <<>>)
    \/ \E outcome \in AgentOutcomes : AgentReturns(outcome)
    \/ SeqTimeout
    \/ \E outcome \in AgentOutcomes : HandoffReturns(outcome)

ConstructSpec == ConstructInit /\ [][ConstructNext]_vars

(* ------------------------- agent selection alone ---------------------- *)
SelectRegistries ==
    { <<"RoboNerd", "RoboDrama", "RoboPirate">>,
      <<"RoboPirate", "RoboFriend", "RoboDrama", "RoboNerd">>,
      <<"RoboFriend", "RoboNerd">>,
      <<"RoboNerd", "RoboFriend">>,
      <<"RoboZen">>,
      <<"RiskManager", "QuantResearcher", "MarketAnalyst", "RoboNerd">>,
      <<"RoboDrama", "RoboPirate", "MarketAnalyst", "QuantResearcher">> }

SelectSetups ==
    { [agents |-> r, strategy |-> st, max_parallel_agents |-> DefaultMaxParallel,
       memory_enabled |-> FALSE, session_manager |-> "unset"] :
      r \in SelectRegistries, st \in {"skill_based", "round_robin"} }

SelectQueries ==
    { "Test query", "Imagine a new world", "Meditate with me",
      "Tell me an exciting story", "Calculate 2+2 and tell a joke",
      "Analyze AAPL payroll risk", "Tell me an exciting math story",
      "Tell me an exciting story about AAPL stock" }

SelectInit == InitFrom(SelectSetups)

\* `await supervisor._select_agents(q)` on a supervisor that holds an agent
SelectAgents(q) ==
    /\ pc = "idle"
    /\ ncalls < MaxCalls
    /\ ncalls' = ncalls + 1
    /\ query' = q
    /\ selected_agents' = _select_agents(<<q>>, agents, config.delegation_strategy).agents
    /\ selecting' = SelectionSteps(<<q>>, agents, config.delegation_strategy)
    /\ UNCHANGED <<parked, agents, config, session_manager, discussion, cancelled, clock, employees, fetched_history,
                   history, context, pc, parallel, specific_agents, enhanced_query,
                   responses, slot, tasks, result, invocations>>

SelectNext == \E q \in SelectQueries : SelectAgents(q)

SelectSpec == SelectInit /\ [][SelectNext]_vars

(* ------------------------- vocabulary of claims ----------------------- *)
Returned == pc = "returned"

\* execute returned through line 169, not through an except handler
NormalReturn == Returned /\ result.duration = "elapsed"

ParallelMode == parallel /\ Len(selected_agents) > 1
SequentialMode == ~ParallelMode

Succeeded(k) == invocations[k].did.kind \in {"text", "dict"}
Raised(k) == invocations[k].did.kind = "raise"
\* the call had not come back when execute returned: its deadline elapsed
TimedOut(k) == Returned /\ invocations[k].did.kind = "pending"

\* the calls made for the selected agents themselves, not for a handoff
Own == {k \in DOMAIN invocations : ~invocations[k].chained}

\* the selected agent at position i was called and answered successfully
SlotSucceeded(i) == \E k \in Own : invocations[k].slot = i /\ Succeeded(k)

ErrorEntry(agent_name, message) == <<agent_name, ": ", message>>

\* the text of an errors entry names a timeout
EntryNamesTimeout(entry) == Contains(Flatten(entry), CharsOf("Timeout"))

(* ------------------------------- C1 ----------------------------------- *)
\* C1: after execute, status is "success" exactly when every agent selected
\* for the call answered successfully; answers of handoff-chained agents do
\* not enter the comparison.
C1_SuccessIffAllSelectedSucceeded ==
    NormalReturn =>
        (result.status = "success"
            <=> \A i \in 1..Len(selected_agents) : SlotSucceeded(i))

(* ------------------------------- C2 ----------------------------------- *)
\* C2: responses and agents_involved have the same length and responses[i]
\* is the reply of the agent agents_involved[i].
C2_ResponsesAligned ==
    /\ Len(result.responses) = Len(result.agents_involved)
    /\ \A i \in 1..Len(result.responses) :
          result.responses[i] = ReplyText(result.agents_involved[i])

\* a returned call that mixes a failure with the answers of two different
\* agents, one of them reached by handoff
C2_Witness ==
    /\ NormalReturn
    /\ result.errors # <<>>
    /\ Len(result.responses) >= 2
    /\ result.agents_involved[1] # result.agents_involved[2]
    /\ \E k \in DOMAIN invocations : invocations[k].chained

(* ------------------------------- C3 ----------------------------------- *)
\* the AgentResponse that call k of the invocation record came back with
Produced(k) == IF ParallelMode THEN tasks[k].response ELSE responses[k]

\* the positions of the agents list whose agent the dispatch calls
Dispatched ==
    {i \in 1..Len(selected_agents) :
        /\ Registered(selected_agents[i])
        /\ ParallelMode => i <= config.max_parallel_agents}

\* the parallel batch ran into its shared deadline
BatchDeadlineElapsed == ParallelMode /\ \E k \in DOMAIN invocations : TimedOut(k)

Failed(k) == Raised(k) \/ TimedOut(k)

\* the replies of the calls that succeeded, in dispatch order
RECURSIVE RepliesOfSucceeded(_)
RepliesOfSucceeded(log) ==
    IF log = <<>> THEN <<>>
    ELSE (IF Head(log).did.kind \in {"text", "dict"}
          THEN <<ReplyText(Head(log).agent)>> ELSE <<>>)
         \o RepliesOfSucceeded(Tail(log))

\* one "<agent name>: <error message>" entry per call that failed
RECURSIVE EntriesOfFailed(_)
EntriesOfFailed(log) ==
    IF log = <<>> THEN <<>>
    ELSE (CASE Head(log).did.kind = "raise" ->
                  <<ErrorEntry(Head(log).agent, Head(log).did.error)>>
            [] Head(log).did.kind = "pending" ->
                  <<ErrorEntry(Head(log).agent, "Timeout")>>
            [] OTHER -> <<>>)
         \o EntriesOfFailed(Tail(log))

\* C4: when some selected agents answer successfully and at least one
\* selected agent fails, the status is "partial_success", responses holds
\* exactly the replies of the successful agents in dispatch order and errors
\* holds exactly one "<agent name>: <error message>" entry per failed agent.
C4_PartialSuccessOnMixedOutcome ==
    (/\ NormalReturn
     /\ \E k \in Own : Succeeded(k)
     /\ \E k \in Own : Failed(k))
    => /\ result.status = "partial_success"
       /\ result.responses = RepliesOfSucceeded(invocations)
       /\ result.errors = EntriesOfFailed(invocations)

(* ------------------------------- C5 ----------------------------------- *)
\* C5: after execute, status is "failure" exactly when no agent produced a
\* successful response and no failed response's error text names a timeout.
C5_FailureIffNothingAndNoTimeout ==
    Returned =>
        (result.status = "failure"
            <=> /\ \A k \in DOMAIN invocations : ~Succeeded(k)
                /\ \A j \in DOMAIN responses :
                      ~responses[j].success => ~IsTimeoutError(responses[j].error))

\* two selected agents both failed with an error that is no timeout
C5_Witness ==
    /\ NormalReturn
    /\ result.status = "failure"
    /\ Len(invocations) = 2
    /\ Raised(1)
    /\ Raised(2)

(* ------------------------------- C6 ----------------------------------- *)
\* a selected agent timed out and no agent of the call answered
TimeoutAndNoSuccess ==
    /\ NormalReturn
    /\ \E k \in Own : TimedOut(k)
    /\ \A k \in DOMAIN invocations : ~Succeeded(k)

\* C6 as stated: when a selected agent times out and every other selected
\* agent fails, the status is "partial_success" and the first errors entry
\* names the timeout.
C6_FirstErrorIsTimeout ==
    TimeoutAndNoSuccess =>
        /\ result.status = "partial_success"
        /\ EntryNamesTimeout(result.errors[1])

\* C6 as amended: when a selected agent times out and every other selected
\* agent fails, the status is "partial_success" and errors holds, for every
\* agent that timed out, its entry "<agent name>: Timeout"; the entries are
\* in dispatch order, so the timeout entry need not be the first.
C6_TimeoutGivesPartialSuccess ==
    TimeoutAndNoSuccess =>
        /\ result.status = "partial_success"
        /\ \A k \in Own : TimedOut(k) =>
              \E j \in DOMAIN result.errors :
                  /\ result.errors[j] = ErrorEntry(invocations[k].agent, "Timeout")
                  /\ EntryNamesTimeout(result.errors[j])

\* the first agent failed with an ordinary error, a later one timed out
C6_Witness ==
    /\ TimeoutAndNoSuccess
    /\ ~EntryNamesTimeout(result.errors[1])

(* ------------------------------- C7 ----------------------------------- *)
\* C7: every execute call that returns hands back a result whose status is
\* success, partial_success or failure, never "pending", also after an agent
\* crash, an agent timeout or a failure of the memory provider.
C7_DefiniteStatus ==
    Returned => result.status \in {"success", "partial_success", "failure"}

\* a first call in which an agent crashed and the provider failed to store
\* the turn
C7_Witness ==
    /\ Returned
    /\ _is_memory_available
    /\ ncalls = 1
    /\ history = <<>>
    /\ result.responses # <<>>
    /\ \E k \in DOMAIN invocations : Raised(k)

(* ------------------------------- C8 ----------------------------------- *)
\* C8: every execute call eventually returns, even if an invoked agent (a
\* selected agent or a handoff target) never comes back.
C8_EveryCallReturns ==
    (pc \in {"await_agent", "await_handoff", "par_wait"}) ~> (pc = "returned")

(* ------------------------------- C9 ----------------------------------- *)
CountOf(s, x) == Cardinality({j \in DOMAIN s : s[j] = x})

HandoffEvent(r) ==
    [type |-> "handoff", from |-> r.agent_name, to |-> r.handoff_to,
     task |-> r.handoff_task]

C10_CompletedKeepResults ==
    (NormalReturn /\ BatchDeadlineElapsed) =>
        \A k \in DOMAIN tasks :
            \E j \in DOMAIN responses :
                responses[j] = IF tasks[k].state = "done" THEN tasks[k].response
                               ELSE TimeoutResponse(tasks[k].agent_name)

(* ------------------------------- C11 ---------------------------------- *)
\* C11: in parallel mode at most max_parallel_agents agents are invoked for
\* one execute call: the agents among the first max_parallel_agents names of
\* the selected list, each once and in selection order; the agents further
\* down the list are never invoked in that call.
C11_OnlyFirstMaxParallelInvoked ==
    ParallelMode =>
        /\ Len(invocations) <= config.max_parallel_agents
        /\ \A i \in 1..Len(selected_agents) :
              Cardinality({k \in DOMAIN invocations :
                              /\ invocations[k].slot = i
                              /\ invocations[k].agent = selected_agents[i]})
                = IF i <= config.max_parallel_agents /\ Registered(selected_agents[i])
                  THEN 1 ELSE 0
        /\ \A k \in DOMAIN invocations :
              /\ invocations[k].slot \in 1..Len(selected_agents)
              /\ invocations[k].agent = selected_agents[invocations[k].slot]
              /\ \A j \in DOMAIN invocations :
                    j < k => invocations[j].slot < invocations[k].slot

\* five agents selected with room for three: the first three were invoked
\* and answered, the call returned
C11_Witness ==
    /\ NormalReturn
    /\ ParallelMode
    /\ Len(selected_agents) = 5
    /\ config.max_parallel_agents = 3
    /\ Len(invocations) = 3
    /\ \A k \in DOMAIN invocations : Succeeded(k)

(* ------------------------------- C12 ---------------------------------- *)
\* the entries the result holds for agent a: its replies (through
\* agents_involved) and its entries of errors
EntriesFor(a) ==
    Cardinality({j \in DOMAIN result.agents_involved : result.agents_involved[j] = a})
    + Cardinality({j \in DOMAIN result.errors : result.errors[j][1] = a})

\* the calls made of agent a's execute, handoff-chained calls included
CallsOf(a) == Cardinality({k \in DOMAIN invocations : invocations[k].agent = a})

\* C12: the dispatch produces exactly one AgentResponse per call it made
\* (the selected agents it dispatched, plus the handoff-chained extras of
\* sequential mode): every dispatched agent ends up in exactly one of
\* responses or errors, and an agent that was not dispatched has no entry.
C12_OneResponsePerDispatched ==
    NormalReturn =>
        /\ Len(responses) = Len(invocations)
        /\ \A a \in SeqToSet(selected_agents) \cup SeqToSet(agents) :
              EntriesFor(a) = CallsOf(a)

(* ------------------------------- C13 ---------------------------------- *)
\* no keyword of any skill category occurs in the lower-cased query
NoCategoryMatches(q) ==
    \A c \in DOMAIN _get_skill_categories :
        ~AnyKeyword(Lower(Flatten(<<q>>)), _get_skill_categories[c].keywords)

\* no indicator of a collaboration heuristic occurs in the lower-cased query
NoIndicatorMatches(q) ==
    /\ ~AnyKeyword(Lower(Flatten(<<q>>)), creative_indicators)
    /\ ~AnyKeyword(Lower(Flatten(<<q>>)), trading_indicators)

\* a selection has been made on a supervisor that holds an agent
Selected == ncalls > 0 /\ agents # <<>>

\* the same query selected again on the same supervisor gives the same list
SameQuerySameSelection ==
    [][(Selected /\ query' = query) => selected_agents' = selected_agents]_vars

InvalidConfig(cfg) ==
    \/ "name" \notin DOMAIN cfg
    \/ "timeout" \in DOMAIN cfg /\ cfg.timeout <= 0

\* C14: constructing a supervisor from a config with no name, or with a
\* timeout that is zero or negative, raises ValueError: no agent's execute has
\* been or is invoked, and nothing is ever done with a supervisor from it.
C14_InvalidConfigRaises ==
    /\ [][(pc = "new" /\ InvalidConfig(config)) =>
             (pc' = "construct_raised" /\ invocations' = <<>>)]_vars
    /\ [][pc # "construct_raised"]_vars

\* the construction from {"name": ..., "timeout": 0} has raised
C14_Witness ==
    /\ pc = "construct_raised"
    /\ "name" \in DOMAIN config
    /\ "timeout" \in DOMAIN config
    /\ config.timeout = 0

(* ------------------------------- C15 ---------------------------------- *)
\* execute_multi_robot_discussion has returned
DiscussionDone == pc = "returned" /\ discussion.topic # ""

\* the robots of the given list that are registered, in the order given
RegisteredRobots == SelectSeq(discussion.robots, Registered)

\* the prompt the robot awaited now was called with
CurrentPrompt == Flatten(invocations[Len(invocations)].query)

\* C15: a discussion of R rounds over N registered agents that all answer
\* successfully returns exactly R*N turns, ordered by round and, within a
\* round, by the order of the given list, each with its agent name and its
\* 1-based round number; a prompt of round 2 (or later) contains the text
\* "Previous discussion" when round 1 produced a successful turn.
C15_DiscussionTurnsInOrder ==
    /\ (DiscussionDone /\ \A k \in DOMAIN invocations : Succeeded(k)) =>
          LET N == Len(RegisteredRobots)
          IN  /\ Len(result.conversation) = discussion.rounds * N
              /\ \A r \in 1..discussion.rounds : \A i \in 1..N :
                    result.conversation[(r - 1) * N + i]
                      = [robot |-> RegisteredRobots[i],
                         text  |-> ReplyText(RegisteredRobots[i]),
                         round |-> r]
    /\ (/\ pc = "await_turn"
        /\ discussion.round_num + 1 >= 2
        /\ \E j \in DOMAIN result.conversation : result.conversation[j].round = 1)
       => Contains(CurrentPrompt, CharsOf("Previous discussion"))

\* two rounds over three registered robots that all answered: six turns
C15_Witness ==
    /\ DiscussionDone
    /\ discussion.rounds = 2
    /\ Len(RegisteredRobots) = 3
    /\ Len(result.conversation) = 6
    /\ \A k \in DOMAIN invocations : Succeeded(k)

(* ------------------------------- C16 ---------------------------------- *)
\* the turns of the calls that succeeded, in call order; N robots are called
\* in every round
RECURSIVE TurnsOfSucceeded(_, _, _)
TurnsOfSucceeded(log, k, N) ==
    IF k > Len(log) THEN <<>>
    ELSE (IF log[k].did.kind \in {"text", "dict"}
          THEN <<[robot |-> log[k].agent, text |-> ReplyText(log[k].agent),
                  round |-> ((k - 1) \div N) + 1]>>
          ELSE <<>>)
         \o TurnsOfSucceeded(log, k + 1, N)

\* C16: in a discussion a turn that fails is left out of the conversation
\* and no error is recorded for it; the remaining agents and rounds are still
\* run, and the status returned is "success" however many turns failed.
C16_FailedTurnsOmitted ==
    DiscussionDone =>
        /\ result.status = "success"
        /\ result.errors = <<>>
        /\ Len(invocations) = discussion.rounds * Len(RegisteredRobots)
        /\ result.conversation
             = TurnsOfSucceeded(invocations, 1, Len(RegisteredRobots))

\* a two-round discussion whose first turn failed and whose later turns went
\* on, one of them successfully
C16_Witness ==
    /\ DiscussionDone
    /\ discussion.rounds = 2
    /\ Len(invocations) = 6
    /\ Raised(1)
    /\ Succeeded(2)
    /\ Raised(6)
    /\ Len(result.conversation) < Len(invocations)

(* ------------------------------- C17 ---------------------------------- *)
\* memory is enabled and the call got nothing from it: no provider, a
\* provider that raised when asked for the history, or an empty history
MemoryDegraded ==
    /\ pc # "idle"
    /\ config.memory_enabled
    /\ \/ session_manager = "None"
       \/ fetched_history.status = "raised"
       \/ fetched_history.status = "returned" /\ fetched_history.turns = <<>>

\* the agents a supervisor without memory selects for the call
SelectionWithoutMemory ==
    IF specific_agents # <<>> THEN specific_agents
    ELSE _select_agents(<<query>>, agents, config.delegation_strategy).agents

\* the replies of the calls that answered, in call order
RECURSIVE RepliesOf(_, _)
RepliesOf(log, k) ==
    IF k > Len(log) THEN <<>>
    ELSE (IF log[k].did.kind \in {"text", "dict"}
          THEN <<ReplyText(log[k].agent)>> ELSE <<>>)
         \o RepliesOf(log, k + 1)

\* the status and responses depend on what the called agents did only
ResultFromAgentsAlone ==
    NormalReturn =>
        /\ result.responses = RepliesOf(invocations, 1)
        /\ result.status =
              IF \A i \in 1..Len(selected_agents) : SlotSucceeded(i) THEN "success"
              ELSE IF \E k \in DOMAIN invocations :
                         \/ Succeeded(k)
                         \/ TimedOut(k)
                         \/ Raised(k) /\ IsTimeoutError(invocations[k].did.error)
                   THEN "partial_success"
              ELSE "failure"

\* C17 as stated: with memory enabled but the provider absent, raising on
\* the fetch or returning no history, every selected agent is called with
\* exactly the original query, and status and responses are those of a call
\* without memory.
C17_DegradedDispatchesOriginalQuery ==
    MemoryDegraded =>
        /\ selected_agents = SelectionWithoutMemory
        /\ \A k \in Own : Flatten(invocations[k].query) = CharsOf(query)
        /\ ResultFromAgentsAlone

\* C17 (amended): with memory enabled but the provider absent, raising on
\* the fetch or returning no history, the enhancer leaves the query as it
\* is: the agents are selected for the original query and called with what a
\* supervisor without memory calls them with (the original query, followed
\* by the supervisor's context when that context mentions "Alice"), and
\* status and responses are those of a call without memory.
C17_DegradedLeavesQueryAlone ==
    MemoryDegraded =>
        /\ enhanced_query = <<query>>
        /\ selected_agents = SelectionWithoutMemory
        /\ pc = "await_agent" =>
              \A k \in Own : invocations[k].query = EnrichedQuery(<<query>>, context)
        /\ \A k \in Own :
              \/ Flatten(invocations[k].query) = CharsOf(query)
              \/ /\ SubSeq(Flatten(invocations[k].query), 1, Len(CharsOf(query)))
                      = CharsOf(query)
                 /\ Contains(Flatten(invocations[k].query), CharsOf("Alice"))
        /\ ResultFromAgentsAlone

\* the provider raised on the fetch of a second call, whose agent was called
\* with the query and the supervisor's context, and answered
C17_Witness ==
    /\ NormalReturn
    /\ MemoryDegraded
    /\ fetched_history.status = "raised"
    /\ query = "What's my name?"
    /\ result.status = "success"
    /\ \E k \in Own :
          /\ Succeeded(k)
          /\ Flatten(invocations[k].query) # CharsOf(query)

(* ------------------------------- C18 ---------------------------------- *)
\* memory is enabled and the provider returned a history that is not empty
MemoryServed ==
    /\ pc # "idle"
    /\ fetched_history.status = "returned"
    /\ fetched_history.turns # <<>>

\* the most recent conversation_history_limit turns
ClaimedWindow == LastN(fetched_history.turns, config.conversation_history_limit)

\* the original query, "\nContext: " and the block rendering these turns
ClaimedQuery ==
    CharsOf(query) \o CharsOf("\nContext: ")
    \o Flatten(JoinWith("\n", ContextParts(ClaimedWindow)))

\* text begins with start
StartsWith(text, start) ==
    /\ Len(start) <= Len(text)
    /\ SubSeq(text, 1, Len(start)) = start

\* C18: with memory enabled and a provider whose history is not empty,
\* every selected agent is called with the original query followed by
\* "\nContext: " and a block rendering each of the most recent
\* conversation_history_limit turns, user turns verbatim and assistant turns
\* cut to 200 characters (after which only the supervisor's own context may
\* follow); so the content of every user turn of that window is a substring
\* of the text the agent is called with.
C18_DispatchedQueryCarriesHistory ==
    MemoryServed =>
        \A k \in Own :
            LET dispatched == Flatten(invocations[k].query)
            IN  /\ \/ dispatched = ClaimedQuery
                   \/ StartsWith(dispatched,
                                 ClaimedQuery \o CharsOf("\nContext: ")
                                 \o CharsOf("{'last_query': '"))
                /\ \A j \in DOMAIN ClaimedWindow :
                      ClaimedWindow[j].role = "user" =>
                          Contains(dispatched, Flatten(ClaimedWindow[j].content))

(* ------------------------------- C19 ---------------------------------- *)
\* the coordinator is suspended on the gather of a parallel batch
WaitingForBatch == pc = "par_wait"

\* the agent of task k can come back now, whatever the other tasks do
CanFinish(k) == ENABLED TaskFinishes(k, Only({o \in AgentOutcomes : o.kind = "text"}))

VerticalReturn == Returned /\ config.vertical # None

\* what RobotSupervisor.execute returns for the responses the dispatch
\* gave, or for the error of a selection that raised
BaseResult ==
    IF NormalReturn
    THEN LET aggregated == ProcessResponses(PendingResult, responses)
         IN  [aggregated EXCEPT
                !.status = FinalStatus(aggregated, TimeoutCount(responses),
                                       selected_agents),
                !.duration = "elapsed"]
    ELSE [PendingResult EXCEPT !.status = "failure",
                               !.errors = <<<<IndexError>>>>]

BaseFields == {"status", "responses", "agents_involved", "errors", "workflow",
               "duration", "conversation"}

\* the step on which a call returns
ReturnStep == pc' = "returned" /\ (pc # "returned" \/ ncalls' # ncalls)

\* C20: a vertical supervisor's execute returns the result of the base
\* execute with the same status, responses, agents_involved, errors and
\* workflow, adding only the vertical and analysis fields; computing the
\* analysis calls no agent and changes nothing of the supervisor.
C20_VerticalOnlyAnnotates ==
    /\ [](VerticalReturn =>
            /\ DOMAIN result = DOMAIN PendingResult \cup {"vertical"}
            /\ \A f \in BaseFields : result[f] = BaseResult[f]
            /\ result.vertical = config.vertical
            /\ result.analysis = _analyze_responses(BaseResult.responses))
    /\ [][(ReturnStep /\ config.vertical # None) =>
            /\ agents' = agents
            /\ config' = config
            /\ session_manager' = session_manager
            /\ history' = history
            /\ Len(invocations') = (IF pc \in {"idle", "returned"} THEN 0
                                    ELSE Len(invocations))
            /\ context' = (IF result'.duration = "elapsed"
                           THEN [keys |-> {"last_query", "last_agents"},
                                 last_query |-> query',
                                 last_agents |-> BaseResult'.agents_involved]
                           ELSE context)]_vars

\* a trading supervisor returned a partial success: one agent failed, the
\* market analyst answered, and the analysis reads its answer
C20_Witness ==
    /\ VerticalReturn
    /\ NormalReturn
    /\ config.vertical = "trading"
    /\ result.status = "partial_success"
    /\ result.errors # <<>>
    /\ result.vertical = "trading"
    /\ result.analysis.market_sentiment = "bullish"
    /\ result.analysis.technical_analysis = "neutral"

(* ------------------------------- C21 ---------------------------------- *)
\* process_payroll has returned
PayrollDone == pc = "returned" /\ "processed_employees" \in DOMAIN result

Max(a, b) == IF a >= b THEN a ELSE b

\* C21: process_payroll gives every employee record overtime_hours =
\* max(hours - 40, 0) and gross_pay = hours*rate when hours <= 40, otherwise
\* 40*rate + (hours - 40)*rate*1.5 (gross_pay counted in halves of the unit);
\* there is one processed record per input record, in input order, and the
\* caller's records are as they were given.
C21_PayrollOvertime ==
    PayrollDone =>
        LET given == employees.given
            processed == result.processed_employees
        IN  /\ Len(processed) = Len(given)
            /\ \A k \in DOMAIN given :
                  LET hours == given[k].hours
                      rate == given[k].rate
                  IN  /\ processed[k].id = given[k].id
                      /\ processed[k].hours = hours
                      /\ processed[k].rate = rate
                      /\ processed[k].overtime_hours = Max(hours - 40, 0)
                      /\ processed[k].gross_pay =
                            IF hours <= 40 THEN 2 * hours * rate
                            ELSE 2 * 40 * rate + 3 * (hours - 40) * rate
            /\ employees.now = given

\* the two employees of the test, the second with five hours of overtime
\* (gross pay 1425), and a record that came with an overtime_hours key
C21_Witness ==
    /\ PayrollDone
    /\ Len(employees.given) = 2
    /\ employees.given[1] = [id |-> "E001", hours |-> 40, rate |-> 25]
    /\ employees.given[2] = [id |-> "E003", hours |-> 45, rate |-> 30, overtime_hours |-> 99]
    /\ result.processed_employees[2].overtime_hours = 5
    /\ result.processed_employees[2].gross_pay = 2 * 1425

(* ------------------------------- C22 ---------------------------------- *)
\* _select_agents has run under skill-based selection
SkillSelected ==
    pc = "idle" /\ ncalls > 0 /\ config.delegation_strategy = "skill_based"

QueryLower == Lower(CharsOf(query))

\* the categories of the catalog one of whose keywords occurs in the
\* lower-cased query
MatchingCategories ==
    {c \in DOMAIN _get_skill_categories :
        AnyKeyword(QueryLower, _get_skill_categories[c].keywords)}

\* the places (category, position among its candidates) where an agent is
\* a candidate of a matching category
SeenAt(a) ==
    {<<c, i>> \in MatchingCategories \X (1..3) :
        /\ i <= Len(_get_skill_categories[c].agents)
        /\ _get_skill_categories[c].agents[i] = a}

\* place p comes before place r in catalog order
Before(p, r) == p[1] < r[1] \/ (p[1] = r[1] /\ p[2] < r[2])

FirstSeen(a) == CHOOSE p \in SeenAt(a) : \A r \in SeenAt(a) : p = r \/ Before(p, r)

NoDuplicates(s) == \A i, j \in DOMAIN s : i # j => s[i] # s[j]

\* C22: under skill-based selection the list before the collaboration
\* heuristics holds exactly the registered candidates of the categories,
\* taken in catalog order, one of whose keywords is a substring of the
\* lower-cased query; each once, in the order in which they are first seen.
C22_SkillMatchInFirstSeenOrder ==
    SkillSelected =>
        LET matched == selecting.matched
        IN  /\ SeqToSet(matched) = {a \in SeqToSet(agents) : SeenAt(a) # {}}
            /\ NoDuplicates(matched)
            /\ \A i, j \in DOMAIN matched :
                  i < j => Before(FirstSeen(matched[i]), FirstSeen(matched[j]))

\* a query in capitals that matches four categories with common candidates,
\* on a registry that lists the agents in another order
C22_Witness ==
    /\ SkillSelected
    /\ query = "Analyze AAPL payroll risk"
    /\ agents = <<"RiskManager", "QuantResearcher", "MarketAnalyst", "RoboNerd">>
    /\ selecting.matched = <<"RoboNerd", "MarketAnalyst", "QuantResearcher", "RiskManager">>

(* ------------------------------- C23 ---------------------------------- *)
CreativeCapable == {"RoboDrama", "RoboPirate", "RoboFriend"}

\* the query of the selection carries a creative-task indicator
CreativeQuery == SkillSelected /\ AnyKeyword(QueryLower, creative_indicators)

\* C23: for a query with a creative-task indicator the list that the
\* creative heuristic produces has at most two agents, and at least two
\* creative-capable agents when at least two of them are registered.
C23_CreativeTeamOfTwo ==
    CreativeQuery =>
        /\ Len(selecting.creative) <= 2
        /\ Cardinality(CreativeCapable \cap SeqToSet(agents)) >= 2
              => Cardinality(CreativeCapable \cap SeqToSet(selecting.creative)) >= 2

(* ------------------------------- C24 ---------------------------------- *)
\* the query of the selection carries a trading/analysis indicator
TradingQuery == SkillSelected /\ AnyKeyword(QueryLower, trading_indicators)

\* the creative heuristic cut the list for the same query
CapApplied == AnyKeyword(QueryLower, creative_indicators)

\* C24: for a query with a trading/analysis indicator the returned
\* selection holds MarketAnalyst and QuantResearcher when they are
\* registered, whatever else was selected and also after the creative cap.
C24_TradingPairPresent ==
    TradingQuery =>
        \A a \in {"MarketAnalyst", "QuantResearcher"} :
            a \in SeqToSet(agents) => a \in SeqToSet(selected_agents)

\* a creative and trading query: the cap left the two storytellers and the
\* trading pair was added behind them
C24_Witness ==
    /\ TradingQuery /\ CapApplied
    /\ selecting.creative = <<"RoboDrama", "RoboPirate">>
    /\ selected_agents = <<"RoboDrama", "RoboPirate", "MarketAnalyst", "QuantResearcher">>

(* ------------------------------- C25 ---------------------------------- *)
\* execute is dispatching, or has dispatched, one agent after the other
SequentialCall == SequentialMode /\ invocations # <<>>

\* call k of the record is over: its execute came back, or its deadline
\* elapsed
Over(k) == invocations[k].did.kind # "pending" \/ k \in cancelled

\* C25: in sequential mode the agents of the list are called one at a time
\* in the order of the list, a call is made only when every earlier call
\* (a handoff target's included) is over, the output sequence has one result
\* per call that is over, in the order of the calls, and a handoff target's
\* call and result come right after its originator's.
C25_SequentialOrder ==
    SequentialCall =>
        LET n == Len(invocations)
        IN  /\ \A k \in 1..(n - 1) : Over(k)
            /\ Len(responses) = (IF pc = "returned" THEN n ELSE n - 1)
            /\ \A k \in 1..Len(responses) : responses[k].agent_name = invocations[k].agent
            /\ \A k \in Own :
                  /\ invocations[k].agent = selected_agents[invocations[k].slot]
                  /\ \A j \in Own : j < k => invocations[j].slot < invocations[k].slot
                  /\ \A m \in RegisteredFrom(selected_agents, 1) :
                        m < invocations[k].slot => \E j \in Own : j < k /\ invocations[j].slot = m
            /\ \A k \in DOMAIN invocations \ Own :
                  /\ k - 1 \in Own
                  /\ invocations[k].slot = invocations[k - 1].slot
                  /\ responses[k - 1].success
                  /\ invocations[k].agent = responses[k - 1].handoff_to
            /\ pc = "returned" =>
                  {invocations[k].slot : k \in Own} = RegisteredFrom(selected_agents, 1)

\* RoboFriend handed off to RoboNerd and RoboNerd was then called as the
\* second agent of the list: the target's result stands between the two
C25_Witness ==
    /\ SequentialCall /\ pc = "returned"
    /\ selected_agents = <<"RoboFriend", "RoboNerd">>
    /\ Len(invocations) = 3 /\ invocations[2].chained
    /\ [k \in 1..3 |-> responses[k].agent_name] = <<"RoboFriend", "RoboNerd", "RoboNerd">>
    /\ responses[2].success /\ ~responses[3].success

(* ------------------------------- C26 ---------------------------------- *)
\* the coordinator is waiting for a handoff target
AwaitingHandoff == pc = "await_handoff"

\* the handoff target was called with the task its originator named, or
\* with the text the originator was called with when it named none
HandoffQueryGiven ==
    AwaitingHandoff =>
        LET k == Len(invocations)
            task == invocations[k - 1].did.handoff_task
        IN  /\ invocations[k].chained
            /\ invocations[k].query =
                  (IF task # None THEN EnrichedQuery(<<task>>, context)
                   ELSE invocations[k - 1].query)

\* C26: in sequential mode a handoff target is called with handoff_task
\* (with the call's query when there is none) and under the per-agent
\* deadline: the coordinator does not wait for it for ever, it goes on with
\* the target's answer or with a timeout failure.
C26_HandoffUnderBudget ==
    /\ []HandoffQueryGiven
    /\ AwaitingHandoff ~> ~AwaitingHandoff

(* ------------------------------- C27 ---------------------------------- *)
\* a sequential call has returned
SequentialReturn == SequentialCall /\ NormalReturn

NoHandoff == \A k \in DOMAIN invocations : ~invocations[k].chained

\* the selected agents that were called all ran into their deadline
AllTimedOut == \A k \in DOMAIN invocations : k \in cancelled

\* C27: in sequential mode the deadline of each selected agent's call is
\* timeout/N, N being the length of the agents list of the call: a deadline
\* that elapses costs the call exactly that much, and a call without
\* handoffs has spent at most the configured timeout in the dispatch when it
\* returns, also when every agent ran into its deadline.
C27_SequentialWithinTimeout ==
    (SequentialReturn /\ NoHandoff) =>
        /\ clock <= Timeout
        /\ clock >= (Timeout \div Len(selected_agents)) * Cardinality(cancelled)

\* three agents, each of which ran into its deadline of a third of a second
C27_Witness ==
    /\ SequentialReturn /\ NoHandoff /\ AllTimedOut
    /\ Len(selected_agents) = 3 /\ Len(invocations) = 3
    /\ config.timeout = 1
    /\ clock = Timeout

(* ------------------------------- C28 ---------------------------------- *)
\* call k had not come back when its deadline elapsed: the coordinator went
\* on with a synthetic timeout failure
Abandoned(k) == Returned /\ invocations[k].did.kind = "pending"

\* C28: timeouts are cooperative: a call that exceeds its deadline (the
\* per-agent one in sequential mode, the shared one in parallel mode) gets a
\* synthetic timeout failure and is left running, it is not cancelled.
C28_DeadlineLeavesCallRunning ==
    \A k \in DOMAIN invocations : Abandoned(k) => k \notin cancelled

(* ------------------------------- C29 ---------------------------------- *)
\* the step on which a call returns having persisted its turn: the user
\* turn and the assistant turn
Persisted == ReturnStep /\ Len(history') = Len(history) + 2

\* the metadata stored with the assistant turn of the call
StoredMetadata == history'[Len(history')].metadata

\* the stored metadata has the agents involved and the handoff events of
\* the result that execute returns
AggregatePersisted ==
    /\ history'[Len(history')].role = "assistant"
    /\ StoredMetadata.agents = result'.agents_involved
    /\ StoredMetadata.workflow = result'.workflow

\* C29: with memory enabled the turn is persisted after the aggregation,
\* and the metadata of the assistant turn has the final status of the call,
\* its duration, the agents involved and the handoff events.
C29_MetadataCarriesFinalResult ==
    [][Persisted =>
          /\ AggregatePersisted
          /\ StoredMetadata.status = result'.status
          /\ StoredMetadata.status \in {"success", "partial_success", "failure"}
          /\ StoredMetadata.duration = result'.duration]_vars

(* ------------------------------- C30 ---------------------------------- *)
\* the step on which a call with a session provider returns after its
\* dispatch
ReturnWithProvider == ReturnStep /\ _is_memory_available

\* what execute returns for the responses of the dispatch when nothing
\* else interferes
Undisturbed(resps, selected) ==
    LET aggregated == ProcessResponses(PendingResult, resps)
    IN  [aggregated EXCEPT
            !.status = FinalStatus(aggregated, TimeoutCount(resps), selected)]

ResultFields == {"status", "responses", "agents_involved", "errors", "workflow"}

\* C30: a failure of the session provider while the turn is persisted is
\* swallowed: execute returns, with the status, responses, agents_involved,
\* errors and workflow that the responses of the dispatch alone determine,
\* the same as when the turn was persisted.
C30_PersistenceFailureSwallowed ==
    [][ReturnWithProvider =>
          \A f \in ResultFields :
              result'[f] = Undisturbed(responses', selected_agents')[f]]_vars

\* a first call on an empty history returned a reply and an error entry,
\* and the provider holds no turn, or the user turn alone: storing failed
C30_Witness ==
    /\ Returned /\ _is_memory_available
    /\ ncalls = 1
    /\ result.responses # <<>>
    /\ Len(history) < 2
    /\ result.status \in {"success", "partial_success"}

(* ------------------------------- C31 ---------------------------------- *)
\* a robot of a discussion has been given its prompt and has not answered
AwaitingTurn == pc = "await_turn"

\* the prompt of the turn that is awaited
TurnPrompt == Flatten(invocations[Len(invocations)].query)

\* a prompt made of the topic and the closing question only
BarePrompt(topic) == Flatten(<<"Topic: ", topic, "\n", "\nWhat are your thoughts?">>)

\* a prior turn as a prompt shows it: the agent's name and the first 100
\* characters of its text
Rendered(msg) ==
    Flatten(<<msg.robot, ": ">>)
    \o (IF Len(Flatten(<<msg.text>>)) <= 100 THEN Flatten(<<msg.text>>)
        ELSE SubSeq(Flatten(<<msg.text>>), 1, 100))

\* the three most recent prior turns, fewer if fewer exist
RecentTurns ==
    LET c == result.conversation
    IN  {c[k] : k \in {j \in DOMAIN c : j > Len(c) - 3}}

\* C31: in a discussion every prompt of round 1 is the topic and the closing
\* question only, and every prompt of a later round holds in addition the
\* three most recent prior turns (fewer if fewer exist), each as the agent's
\* name and the first 100 characters of its text.
C31_PriorTurnsFromRoundTwo ==
    AwaitingTurn =>
        IF discussion.round_num = 0
        THEN TurnPrompt = BarePrompt(discussion.topic)
        ELSE \A msg \in RecentTurns : Contains(TurnPrompt, Rendered(msg))

(* ------------------------------- C32 ---------------------------------- *)
\* execute returned through its `except Exception` handler: an exception
\* escaped the coordinator itself
EscapedReturn == Returned /\ ~NormalReturn

\* the duration of the result is neither the default of SupervisorResult
\* nor the measured time of the call: it was set to the configured timeout
DurationPinned == result.duration \notin {"0.0", "elapsed"}

\* C32: when an exception escapes the coordinator itself, execute returns
\* status "failure", a duration equal to the configured timeout, and exactly
\* one entry in errors.
C32_EscapedExceptionResult ==
    EscapedReturn =>
        /\ result.status = "failure"
        /\ Len(result.errors) = 1
        /\ DurationPinned

(* ------------------------------- C33 ---------------------------------- *)
\* the context map holds the query and the agents involved of the call
\* that has just returned, and nothing else
ContextOfThisCall ==
    /\ context.keys = {"last_query", "last_agents"}
    /\ context.last_query = query
    /\ context.last_agents = result.agents_involved

\* C33: after every execute call, whatever its outcome, the context map
\* holds exactly that call's query as last_query and that call's
\* agents_involved as last_agents; the values of earlier calls are replaced.
C33_ContextOverwritten == Returned => ContextOfThisCall

(* ------------------------------- C34 ---------------------------------- *)
\* C34: after an execute call that returns through the normal aggregation
\* path, status is "success" if and only if errors is empty.
C34_SuccessIffNoErrors ==
    NormalReturn => (result.status = "success" <=> result.errors = <<>>)

(* ------------------------------- C35 ---------------------------------- *)
\* the calls that the coordinator made to follow a handoff
Chained == DOMAIN invocations \ Own

\* call k was made for the handoff that event e records: the target was
\* called right after the answer of the agent that asked for it
Follows(k, e) ==
    /\ k \in Chained
    /\ invocations[k].agent = e.to
    /\ invocations[k - 1].agent = e.from
    /\ invocations[k - 1].did.handoff_to = e.to

\* C35: every handoff event of workflow stands for a call of its target
\* that the coordinator made in the same execute call right after the
\* originator's answer; a request that was not followed (parallel mode, a
\* target that is not registered, a request of a handoff target) leaves no
\* event.
C35_EventsAreFollowedHandoffs ==
    NormalReturn =>
        /\ \A j \in DOMAIN result.workflow : \E k \in Chained : Follows(k, result.workflow[j])
        /\ Len(result.workflow) = Cardinality(Chained)

(* ------------------------------- C36 ---------------------------------- *)
\* the chained calls made for the agent at position i of the list
ChainedFor(i) == {k \in Chained : invocations[k].slot = i}

\* C36: in one sequential execute each selected agent triggers at most one
\* chained call and the handoff request of a chained agent is not followed,
\* so there are at most twice as many calls as selected agents, also when
\* two agents hand off to each other or an agent hands off to itself.
C36_HandoffChainingBounded ==
    SequentialCall =>
        /\ \A i \in DOMAIN selected_agents : Cardinality(ChainedFor(i)) <= 1
        /\ \A k \in Chained : k - 1 \in Own
        /\ Len(invocations) <= 2 * Len(selected_agents)

\* RoboFriend and RoboNerd, both selected, handed off to each other: each
\* target asked for a handoff in turn and the call returned after four calls
C36_Witness ==
    /\ SequentialCall /\ NormalReturn
    /\ selected_agents = <<"RoboFriend", "RoboNerd">>
    /\ Len(invocations) = 4
    /\ invocations[1].did.handoff_to = "RoboNerd"
    /\ invocations[2].chained /\ invocations[2].did.handoff_to = "RoboFriend"
    /\ invocations[3].did.handoff_to = "RoboFriend"
    /\ invocations[4].chained /\ invocations[4].did.handoff_to = "RoboNerd"

(* ------------------------------- C37 ---------------------------------- *)
\* the other call is in flight: it has called an agent and awaits it
OtherCallInFlight == parked.pc \in {"await_agent", "await_handoff", "par_wait"}

\* a step that changes self.context
ContextWritten == context' # context

\* C37: with several execute calls in flight on one supervisor, every step
\* between two points where another task can run that changes the context
\* map leaves both keys set, last_query and last_agents being the query and
\* the agents_involved of the one call that made the step, which returns in
\* that step; so no task ever finds the map with the two keys written by
\* different calls, and what the map holds is what the last call to finish
\* wrote.
C37_ContextNeverTorn ==
    [][ContextWritten =>
          /\ pc' = "returned"
          /\ context'.keys = {"last_query", "last_agents"}
          /\ context'.last_query = query'
          /\ context'.last_agents = result'.agents_involved]_vars

\* one call returns and writes the map while the other, made with another
\* query, is suspended in its dispatch
C37_Witness ==
    /\ NormalReturn
    /\ OtherCallInFlight
    /\ parked.query # query
    /\ parked.invocations # <<>>
    /\ ContextOfThisCall

(* ------------------------------- C38 ---------------------------------- *)
\* the text has a context block: the header that
\* _build_context_enhanced_query puts before the rendered turns
HasContextBlock(text) == Contains(Flatten(text), CharsOf("\nContext: "))

\* a step on which the provider gets new turns
Stored == history' # history

\* the first turn stored on that step
StoredUserTurn == history'[Len(history) + 1]

\* that turn is a user turn whose content is the query execute was called
\* with
OriginalQueryStored ==
    /\ StoredUserTurn.role = "user"
    /\ StoredUserTurn.content = <<query'>>

\* C38 as stated: with memory enabled, the user turn persisted for a call
\* has the caller's original query as its content, and over any sequence of
\* calls no stored turn contains a context block.
C38_NoContextBlockStored ==
    [][Stored =>
          /\ OriginalQueryStored
          /\ \A k \in DOMAIN history' : ~HasContextBlock(history'[k].content)]_vars

\* C38, amended: with memory enabled, the user turn persisted for a call
\* has the caller's original query as its content, not the memory-enhanced
\* query, and over any sequence of calls no stored user turn contains a
\* context block (an assistant turn holds what the agents answered).
C38_UserTurnIsOriginalQuery ==
    [][Stored =>
          /\ OriginalQueryStored
          /\ \A k \in DOMAIN history' :
                history'[k].role = "user" => ~HasContextBlock(history'[k].content)]_vars

\* a call whose query was enhanced with a context block has stored its
\* turns: the user turn has the query as it was given, and the assistant
\* turn has the answer of the agent, which repeated what it was asked
C38_Witness ==
    /\ NormalReturn
    /\ ncalls = 1
    /\ HasContextBlock(enhanced_query)
    /\ Len(history) = 4
    /\ history[3].role = "user"
    /\ history[3].content = <<query>>
    /\ history[4].role = "assistant"
    /\ HasContextBlock(history[4].content)

====
